---- MODULE Spec2Model ----
(***************************************************************************)
(* A model of the loan cash-flow and effective-rate engine:                *)
(*   src/hazel.py         fsolve, loanSchedule                             *)
(*   src/eirmodelling.py  compute_pv_of_cashflows, xirr,                   *)
(*                        compute_carrying_value_adjustments               *)
(*                                                                         *)
(* Number representation.  The program computes in binary floating point;  *)
(* the model computes in fixed point on integers:                          *)
(*   money of hazel.py       in units of 1/MoneyScale  (1e-5)              *)
(*   growth factors          in units of 1/FactorScale (1e-5)              *)
(*   annual rates of hazel   in units of 1/RateScale   (per mille)         *)
(* A quotient the program rounds to the nearest float is truncated here.   *)
(* Dates are calendar dates [y, m, d] (hazel.py) or day numbers            *)
(* (eirmodelling.py, which uses dates only through differences in days).   *)
(***************************************************************************)
EXTENDS Integers, Sequences, FiniteSets, TLC

VARIABLES
    \* ---- loanSchedule construction (src/hazel.py:24-127)
    terms,               \* the constructor's arguments
    pc,                  \* position in __init__
    err,                 \* the exception that ended the call, or "none"
    frequency,           \* self.frequency
    payment_date,        \* self.payment_date
    first_payment_date,  \* self.first_payment_date
    payment_schedule,    \* self.payment_schedule: the "date" column
    ledger,              \* the six ledger lists calculate_payment rebuilds
    calls,               \* number of calculate_payment calls so far
    last_payment,        \* the argument of the latest calculate_payment call
    fs,                  \* fsolve's locals for the constructor's call: x, i
    monthly_payment,     \* self.monthly_payment
    df,                  \* self.df
    \* ---- a stand-alone fsolve call (src/hazel.py:11-22)
    fcall,               \* func, x0, max_iter, x, i, status, result
    \* ---- a call of xirr (src/eirmodelling.py:87-163)
    xc,                  \* its arguments, position, locals and outcome
    \* ---- a call of compute_carrying_value_adjustments (lines 186-236)
    cva,                 \* its arguments, position, locals and outcome
    \* ---- a call of compute_pv_of_cashflows (lines 60-85)
    pvcall,              \* its arguments, position and result
    \* ---- a call of generate_test_schedule (lines 238-301)
    tsched,              \* its arguments, position and result
    \* ---- the calls a caller has completed, with their outcomes
    log

loanVars == <<terms, pc, err, frequency, payment_date, first_payment_date,
              payment_schedule, ledger, calls, last_payment, fs,
              monthly_payment, df>>
vars == <<terms, pc, err, frequency, payment_date, first_payment_date,
          payment_schedule, ledger, calls, last_payment, fs, monthly_payment,
          df, fcall, xc, cva, pvcall, tsched, log>>

(***************************************************************************)
(* Scales and integer helpers                                              *)
(***************************************************************************)
MoneyScale == 10^5
FactorScale == 10^5
RateScale == 10^3

Abs(a) == IF a < 0 THEN -a ELSE a

Sign(a) == IF a > 0 THEN 1 ELSE IF a < 0 THEN -1 ELSE 0

\* a / b truncated toward zero (b # 0)
TruncDiv(a, b) ==
    LET q == Abs(a) \div Abs(b)
    IN  IF (a < 0) = (b < 0) THEN q ELSE -q

\* floor(a * b / c) for c > 0, without forming the product a * b
MulDivFloor(a, b, c) ==
    (a \div c) * b + (((a % c) * b) \div c)

(***************************************************************************)
(* Calendar                                                                *)
(***************************************************************************)
IsLeap(y) == (y % 4 = 0 /\ y % 100 # 0) \/ y % 400 = 0

DaysInMonth(y, m) ==
    IF m = 2 THEN (IF IsLeap(y) THEN 29 ELSE 28)
    ELSE IF m \in {4, 6, 9, 11} THEN 30 ELSE 31

RECURSIVE DaysBeforeMonth(_, _)
DaysBeforeMonth(y, m) ==
    IF m = 1 THEN 0 ELSE DaysBeforeMonth(y, m - 1) + DaysInMonth(y, m - 1)

\* days from 0001-01-01 to the first of January of year y
DaysBeforeYear(y) ==
    LET p == y - 1 IN p * 365 + (p \div 4) - (p \div 100) + (p \div 400)

\* the proleptic Gregorian ordinal of a date
Ordinal(dt) == DaysBeforeYear(dt.y) + DaysBeforeMonth(dt.y, dt.m) + dt.d

\* (b - a).days
DaysBetween(a, b) == Ordinal(b) - Ordinal(a)

ValidDate(y, m, d) == m \in 1..12 /\ d >= 1 /\ d <= DaysInMonth(y, m)

\* date + pd.DateOffset(months=k): the day is clamped to the month's end
AddMonths(dt, k) ==
    LET t == dt.y * 12 + (dt.m - 1) + k
        y == t \div 12
        m == (t % 12) + 1
        dim == DaysInMonth(y, m)
    IN  [y |-> y, m |-> m, d |-> IF dt.d > dim THEN dim ELSE dt.d]

\* date + pd.offsets.MonthBegin(1): the first day of the next month
MonthBegin(dt) ==
    LET t == dt.y * 12 + (dt.m - 1) + 1
    IN  [y |-> t \div 12, m |-> (t % 12) + 1, d |-> 1]

MonthsBetween(a, b) == (b.y - a.y) * 12 + (b.m - a.m)

(***************************************************************************)
(* src/hazel.py: frequency_dict, fsolve                                    *)
(***************************************************************************)
FrequencyNames == {"monthly", "quarterly", "semi-annually", "annually"}

\* frequency_dict: the value is used as DateOffset(months=...)
frequency_dict ==
    [n \in FrequencyNames |->
        CASE n = "monthly" -> 1
          [] n = "quarterly" -> 4
          [] n = "semi-annually" -> 5
          [] n = "annually" -> 12]

\* h = 1e-5 and xtol = 1e-5, in money units; max_iter's default
H == 1
Xtol == 1
DefaultMaxIter == 100

\* NewtonStep with the return taken out of the tolerance test: the first
\* iterate is returned whatever the step was.
NewtonStepNoTolerance(x, f_val, f_h, xtol) ==
    LET diff == f_h - f_val
    IN  IF diff = 0
        THEN [kind |-> "raise", x |-> x]
        ELSE [kind |-> "return", x |-> x - TruncDiv(f_val * H, diff)]

\* One pass of fsolve's loop body from x, given f_val = func(x) and
\* f_h = func(x + h): the exception, the value returned, or the next iterate.
NewtonStep(x, f_val, f_h, xtol) ==
    LET diff == f_h - f_val                  \* f_prime = diff / h
    IN  IF diff = 0
        THEN [kind |-> "raise", x |-> x]
        ELSE LET x_new == x - TruncDiv(f_val * H, diff)
             IN  IF Abs(x_new - x) < xtol
                 THEN [kind |-> "return", x |-> x_new]
                 ELSE [kind |-> "continue", x |-> x_new]

\* the loop of fsolve written as `while True`: no pass is the last one
FsolveOutcomeUnbounded(step, i, max_iter) == step

\* What fsolve's loop has come to after pass number i + 1 of max_iter: falling
\* out of the for loop ends the function without a return statement.
FsolveOutcome(step, i, max_iter) ==
    IF step.kind = "continue" /\ i + 1 >= max_iter
    THEN [kind |-> "none", x |-> step.x]
    ELSE step

(***************************************************************************)
(* src/hazel.py: loanSchedule                                              *)
(***************************************************************************)
NoDate == [y |-> 0, m |-> 0, d |-> 0]

EmptyLedger ==
    [interest_payments |-> <<>>, principal_payments |-> <<>>,
     fees_outstanding |-> <<>>, total_payments |-> <<>>,
     opening_balance |-> <<>>, closing_balance |-> <<>>]

Min(a, b) == IF a < b THEN a ELSE b

\* self.payment_date after lines 37-40; the argument is {} for None and {n}
\* for the integer n
PaymentDay(arg, start) ==
    IF arg = {} THEN start.d ELSE Min(28, CHOOSE n \in arg : TRUE)

\* the growth with a rate of 0 read as a rate not given, and the smallest
\* rate of the grid taken in its place
GrowthMinus1FalsyRate(rate, days) ==
    LET r  == IF rate = 0 THEN 1 ELSE rate
        t  == (4 * days * FactorScale) \div 1461
        T1 == (t * r) \div RateScale
        T2 == (((T1 * (t - FactorScale)) \div FactorScale) * r)
                  \div (2 * RateScale)
        T3 == (((T2 * (t - 2 * FactorScale)) \div FactorScale) * r)
                  \div (3 * RateScale)
    IN  T1 + T2 + T3

\* (1 + rate) ** (days / 365.25) - 1 in units of 1/FactorScale: the binomial
\* series of the power, to the third order.
GrowthMinus1(rate, days) ==
    LET t  == (4 * days * FactorScale) \div 1461
        T1 == (t * rate) \div RateScale
        T2 == (((T1 * (t - FactorScale)) \div FactorScale) * rate)
                  \div (2 * RateScale)
        T3 == (((T2 * (t - 2 * FactorScale)) \div FactorScale) * rate)
                  \div (3 * RateScale)
    IN  T1 + T2 + T3

\* dates["days_in_period"] of row i (0-based); the last row has none
DaysInPeriod(sched, i) == DaysBetween(sched[i + 1], sched[i + 2])

\* the first payment date taken in start's own month in both branches
FirstPaymentDateSameMonth(start, day) ==
    IF start.d = day THEN NoDate ELSE [start EXCEPT !.d = day]

\* self.first_payment_date after lines 61-71; NoDate when no branch assigns it
FirstPaymentDate(start, day) ==
    LET nextMonth == [MonthBegin(start) EXCEPT !.d = day]
    IN  IF start.d > day THEN nextMonth
        ELSE IF start.d < day
        THEN (IF ValidDate(start.y, start.m, day)
              THEN [start EXCEPT !.d = day] ELSE nextMonth)
        ELSE NoDate

\* a range that holds one date more than periods
RECURSIVE DateRangeOneMore(_, _, _)
DateRangeOneMore(cur, periods, k) ==
    IF periods < 0 THEN <<>>
    ELSE <<cur>> \o DateRangeOneMore(AddMonths(cur, k), periods - 1, k)

\* pd.date_range(start, periods, freq=DateOffset(months=k))
RECURSIVE DateRange(_, _, _)
DateRange(cur, periods, k) ==
    IF periods <= 0 THEN <<>>
    ELSE <<cur>> \o DateRange(AddMonths(cur, k), periods - 1, k)

\* the ledger whose closing balance takes the whole payment off the opening
\* balance, interest included
RECURSIVE LedgerUpToWholePayment(_, _, _, _)
LedgerUpToWholePayment(t, sched, payment, k) ==
    IF k = 0
    THEN [interest_payments |-> <<0>>, principal_payments |-> <<0>>,
          fees_outstanding |-> <<t.start_fee + t.end_fee>>,
          total_payments |-> <<0>>,
          opening_balance |-> <<0>>, closing_balance |-> <<t.amount>>]
    ELSE LET L == LedgerUpToWholePayment(t, sched, payment, k - 1)
             last == Len(sched) - 1
             opening == L.closing_balance[k]
             interest == MulDivFloor(opening,
                             GrowthMinus1(t.rate, DaysInPeriod(sched, k - 1)),
                             FactorScale)
             fee == IF k = 1 THEN t.start_fee
                    ELSE IF k = last THEN t.end_fee ELSE 0
         IN  [interest_payments |-> Append(L.interest_payments, interest),
              principal_payments |->
                  Append(L.principal_payments, payment - interest),
              fees_outstanding |->
                  Append(L.fees_outstanding, L.fees_outstanding[k] - fee),
              total_payments |-> Append(L.total_payments, payment + fee),
              opening_balance |-> Append(L.opening_balance, opening),
              closing_balance |->
                  Append(L.closing_balance, opening - payment)]

\* The ledger after the loop of calculate_payment has handled rows 0..k.
RECURSIVE LedgerUpTo(_, _, _, _)
LedgerUpTo(t, sched, payment, k) ==
    IF k = 0
    THEN [interest_payments |-> <<0>>, principal_payments |-> <<0>>,
          fees_outstanding |-> <<t.start_fee + t.end_fee>>,
          total_payments |-> <<0>>,
          opening_balance |-> <<0>>, closing_balance |-> <<t.amount>>]
    ELSE LET L == LedgerUpTo(t, sched, payment, k - 1)
             last == Len(sched) - 1
             opening == L.closing_balance[k]
             interest == MulDivFloor(opening,
                             GrowthMinus1(t.rate, DaysInPeriod(sched, k - 1)),
                             FactorScale)
             principal == payment - interest
             fee == IF k = 1 THEN t.start_fee
                    ELSE IF k = last THEN t.end_fee ELSE 0
         IN  [interest_payments |-> Append(L.interest_payments, interest),
              principal_payments |-> Append(L.principal_payments, principal),
              fees_outstanding |->
                  Append(L.fees_outstanding, L.fees_outstanding[k] - fee),
              total_payments |-> Append(L.total_payments, payment + fee),
              opening_balance |-> Append(L.opening_balance, opening),
              closing_balance |->
                  Append(L.closing_balance, opening - principal)]

\* The six lists after calculate_payment(payment)
CalcLedger(t, sched, payment) == LedgerUpTo(t, sched, payment, Len(sched) - 1)

\* calculate_payment that returns the final closing balance, the residual
\* not taken off
CalcPaymentNoResidual(t, sched, payment) ==
    CalcLedger(t, sched, payment).closing_balance[Len(sched)]

\* The value calculate_payment(payment) returns
CalcPayment(t, sched, payment) ==
    CalcLedger(t, sched, payment).closing_balance[Len(sched)] - t.residual

\* round(2) of a money amount
Round2(v) == ((v + (MoneyScale \div 200)) \div (MoneyScale \div 100))
                 * (MoneyScale \div 100)

RoundAll(s) == [i \in 1..Len(s) |-> Round2(s[i])]

(***************************************************************************)
(* Inputs of the model                                                     *)
(***************************************************************************)
MaxPayments == 3

Amounts == {-1000 * MoneyScale, 1000 * MoneyScale}
Rates == {-50, 0, 50}
PaymentCounts == 0..MaxPayments
Residuals == {0, 1001 * MoneyScale, 2000 * MoneyScale}
PaymentDateArgs == {{}, {15}, {31}}
StartDates == {[y |-> 2023, m |-> 1, d |-> 1],
               [y |-> 2023, m |-> 11, d |-> 15],
               [y |-> 2024, m |-> 1, d |-> 31],
               [y |-> 2023, m |-> 12, d |-> 20]}
FrequencyArgs == FrequencyNames \cup {"weekly"}
Fees == {[start_fee |-> 0, end_fee |-> 0],
         [start_fee |-> 100 * MoneyScale, end_fee |-> 200 * MoneyScale]}

AllTerms ==
    {[amount |-> a, rate |-> r, start_date |-> sd, payments |-> n,
      residual |-> res, payment_date |-> pd, frequency |-> fq,
      start_fee |-> fee.start_fee, end_fee |-> fee.end_fee] :
        a \in Amounts, r \in Rates, sd \in StartDates, n \in PaymentCounts,
        res \in Residuals, pd \in PaymentDateArgs, fq \in FrequencyArgs,
        fee \in Fees}

IdleCall == [func |-> [kind |-> "none", a |-> 0, b |-> 0], x0 |-> 0,
             max_iter |-> 0, x |-> 0, i |-> 0, status |-> "idle",
             result |-> [kind |-> "unset", v |-> 0]]

\* no xirr call
IdleXirr ==
    [pc |-> "idle", cashflows |-> <<>>, guess |-> [n |-> 0, d |-> 1],
     tol |-> 0, max_iter |-> 0, series |-> <<>>, upper |-> 0,
     f_low |-> [kind |-> "fin", v |-> 0], f_high |-> [kind |-> "fin", v |-> 0],
     expansions |-> 0, a |-> [n |-> 0, d |-> 1], b |-> [n |-> 0, d |-> 1],
     fa |-> [kind |-> "fin", v |-> 0], fb |-> [kind |-> "fin", v |-> 0],
     iter |-> 0, rate |-> [kind |-> "fin", n |-> 0], npv_calls |-> 0,
     ret |-> "none", result |-> [n |-> 0, d |-> 1], err |-> "none"]

\* no compute_carrying_value_adjustments call
IdleCva ==
    [pc |-> "idle", original |-> <<>>, reforecasts |-> <<>>, eir_arg |-> {},
     orig |-> <<>>, eir |-> [n |-> 0, d |-> 1], todo |-> <<>>,
     rows |-> <<>>, err |-> "none"]

\* no compute_pv_of_cashflows call
IdlePv ==
    [pc |-> "idle", cashflows |-> <<>>, rate |-> [n |-> 0, d |-> 1],
     base_date |-> 0, result |-> 0]

\* no generate_test_schedule call
IdleSched ==
    [pc |-> "idle", principal |-> 0, annual_rate |-> [n |-> 0, d |-> 1],
     term_years |-> 0, amortizing |-> FALSE, result |-> <<>>]

NoOtherCalls ==
    /\ pvcall = IdlePv
    /\ tsched = IdleSched
    /\ log = <<>>

IdleTerms ==
    [amount |-> 0, rate |-> 0, start_date |-> NoDate, payments |-> 0,
     residual |-> 0, payment_date |-> {}, frequency |-> "none",
     start_fee |-> 0, end_fee |-> 0]

LoanFresh ==
    /\ err = "none"
    /\ frequency = 0
    /\ payment_date = 0
    /\ first_payment_date = NoDate
    /\ payment_schedule = <<>>
    /\ ledger = EmptyLedger
    /\ calls = 0
    /\ last_payment = 0
    /\ fs = [x |-> 0, i |-> 0]
    /\ monthly_payment = [kind |-> "unset", v |-> 0]
    /\ df = <<>>

InitLoan ==
    /\ terms \in AllTerms
    /\ pc = "new"
    /\ LoanFresh
    /\ fcall = IdleCall
    /\ xc = IdleXirr
    /\ cva = IdleCva
    /\ NoOtherCalls

(***************************************************************************)
(* loanSchedule.__init__, one action per stage                             *)
(***************************************************************************)
Raise(e) ==
    /\ pc' = "raised"
    /\ err' = e

\* the fields set with a lookup that falls back to monthly for a name
\* frequency_dict does not hold
SetFieldsDefaultFrequency ==
    /\ pc = "new"
    /\ frequency' = IF terms.frequency \in DOMAIN frequency_dict
                    THEN frequency_dict[terms.frequency]
                    ELSE frequency_dict["monthly"]
    /\ payment_date' = PaymentDay(terms.payment_date, terms.start_date)
    /\ pc' = "fields"
    /\ UNCHANGED <<terms, err, first_payment_date, payment_schedule, ledger,
                   calls, last_payment, fs, monthly_payment, df, fcall, xc,
                   cva, pvcall, tsched, log>>

\* lines 27-40: the fields, the frequency lookup, the payment day
SetFields ==
    /\ pc = "new"
    /\ IF terms.frequency \notin DOMAIN frequency_dict
       THEN /\ Raise("KeyError")
            /\ UNCHANGED <<frequency, payment_date>>
       ELSE /\ frequency' = frequency_dict[terms.frequency]
            /\ payment_date' = PaymentDay(terms.payment_date, terms.start_date)
            /\ pc' = "fields"
            /\ err' = err
    /\ UNCHANGED <<terms, first_payment_date, payment_schedule, ledger, calls,
                   last_payment, fs, monthly_payment, df, fcall, xc, cva,
                   pvcall, tsched, log>>

\* line 43 and generate_schedule (lines 59-84)
GenerateSchedule ==
    /\ pc = "fields"
    /\ LET first == FirstPaymentDate(terms.start_date, payment_date)
       IN  IF first = NoDate
           THEN /\ Raise("AttributeError")
                /\ UNCHANGED <<first_payment_date, payment_schedule>>
           ELSE /\ first_payment_date' = first
                /\ payment_schedule' =
                       <<terms.start_date>>
                           \o DateRange(first, terms.payments, frequency)
                /\ pc' = "scheduled"
                /\ err' = err
    /\ UNCHANGED <<terms, frequency, payment_date, ledger, calls,
                   last_payment, fs, monthly_payment, df, fcall, xc, cva,
                   pvcall, tsched, log>>

\* line 46: the arguments of fsolve, and fsolve's line 12
FsolveStart ==
    /\ pc = "scheduled"
    /\ IF terms.payments = 0
       THEN /\ Raise("ZeroDivisionError")
            /\ fs' = fs
       ELSE /\ fs' = [x |-> TruncDiv(terms.amount, terms.payments), i |-> 0]
            /\ pc' = "solving"
            /\ err' = err
    /\ UNCHANGED <<terms, frequency, payment_date, first_payment_date,
                   payment_schedule, ledger, calls, last_payment,
                   monthly_payment, df, fcall, xc, cva,
                   pvcall, tsched, log>>

\* one pass of fsolve's loop (lines 13-22) on self.calculate_payment; the
\* pass calls calculate_payment at x, at x + h and at x again, so the ledger
\* it leaves is that of x
FsolveIter ==
    /\ pc = "solving"
    /\ LET F(p) == CalcPayment(terms, payment_schedule, p)
           out == FsolveOutcome(NewtonStep(fs.x, F(fs.x), F(fs.x + H), Xtol),
                                fs.i, DefaultMaxIter)
       IN  /\ ledger' = CalcLedger(terms, payment_schedule, fs.x)
           /\ calls' = calls + 3
           /\ last_payment' = fs.x
           /\ CASE out.kind = "raise" ->
                     /\ Raise("ValueError")
                     /\ UNCHANGED <<fs, monthly_payment>>
                [] out.kind = "return" ->
                     /\ monthly_payment' = [kind |-> "float", v |-> out.x]
                     /\ pc' = "solved"
                     /\ UNCHANGED <<fs, err>>
                [] out.kind = "none" ->
                     /\ monthly_payment' = [kind |-> "None", v |-> 0]
                     /\ pc' = "solved"
                     /\ UNCHANGED <<fs, err>>
                [] out.kind = "continue" ->
                     /\ fs' = [x |-> out.x, i |-> fs.i + 1]
                     /\ UNCHANGED <<pc, err, monthly_payment>>
    /\ UNCHANGED <<terms, frequency, payment_date, first_payment_date,
                   payment_schedule, df, fcall, xc, cva,
                   pvcall, tsched, log>>

\* lines 48-57: the output frame, rounded to two decimals
BuildDf ==
    /\ pc = "solved"
    /\ df' = [payment_date |-> payment_schedule,
              payment_amount |-> RoundAll(ledger.total_payments),
              interest_payment |-> RoundAll(ledger.interest_payments),
              principal_payment |-> RoundAll(ledger.principal_payments),
              opening_balance |-> RoundAll(ledger.opening_balance),
              closing_balance |-> RoundAll(ledger.closing_balance),
              fees_outstanding |-> RoundAll(ledger.fees_outstanding)]
    /\ pc' = "done"
    /\ UNCHANGED <<terms, err, frequency, payment_date, first_payment_date,
                   payment_schedule, ledger, calls, last_payment, fs,
                   monthly_payment, fcall, xc, cva,
                   pvcall, tsched, log>>

\* calls of calculate_payment counted before the model stops issuing them
MaxCalls == 10

\* the payments a caller passes to calculate_payment on a constructed loan
LaterPayments ==
    {0, terms.amount} \cup
        (IF monthly_payment.kind = "float" THEN {monthly_payment.v} ELSE {})

\* calculate_payment without lines 87-92: the rows of the call are appended
\* to the lists the call before left
CalculatePaymentAppends ==
    /\ pc = "done"
    /\ calls < MaxCalls
    /\ \E p \in LaterPayments :
           /\ ledger' = [f \in DOMAIN ledger |->
                             ledger[f] \o Tail(CalcLedger(terms,
                                                  payment_schedule, p)[f])]
           /\ last_payment' = p
    /\ calls' = calls + 1
    /\ UNCHANGED <<terms, pc, err, frequency, payment_date,
                   first_payment_date, payment_schedule, fs,
                   monthly_payment, df, fcall, xc, cva,
                   pvcall, tsched, log>>

\* sched.calculate_payment(p) on a constructed loan (lines 86-127): the six
\* lists of the object are rebuilt for p
CalculatePayment ==
    /\ pc = "done"
    /\ calls < MaxCalls
    /\ \E p \in LaterPayments :
           /\ ledger' = CalcLedger(terms, payment_schedule, p)
           /\ last_payment' = p
    /\ calls' = calls + 1
    /\ UNCHANGED <<terms, pc, err, frequency, payment_date,
                   first_payment_date, payment_schedule, fs,
                   monthly_payment, df, fcall, xc, cva,
                   pvcall, tsched, log>>

NextLoan ==
    \/ SetFields
    \/ GenerateSchedule
    \/ FsolveStart
    \/ FsolveIter
    \/ BuildDf
    \/ CalculatePayment

SpecLoan == InitLoan /\ [][NextLoan]_vars

(***************************************************************************)
(* A stand-alone call fsolve(func, x0, max_iter=n) on a function of the    *)
(* caller: a*x + b, or |x| + b (which has no root when b > 0)              *)
(***************************************************************************)
MaxIterArg == 3

TestFuncs ==
    {[kind |-> "affine", a |-> a, b |-> b * MoneyScale] :
         a \in {0, 1, 2, -3}, b \in {-1, 0}}
    \cup {[kind |-> "abs", a |-> 1, b |-> MoneyScale]}

StartPoints == {k * MoneyScale : k \in -2..2}

ApplyFunc(f, x) ==
    IF f.kind = "abs" THEN Abs(x) + f.b ELSE f.a * x + f.b

InitFsolve ==
    /\ terms = IdleTerms
    /\ pc = "idle"
    /\ LoanFresh
    /\ \E f \in TestFuncs, x0 \in StartPoints, n \in 1..MaxIterArg :
           fcall = [func |-> f, x0 |-> x0, max_iter |-> n, x |-> x0, i |-> 0,
                    status |-> "running",
                    result |-> [kind |-> "unset", v |-> 0]]
    /\ xc = IdleXirr
    /\ cva = IdleCva
    /\ NoOtherCalls

\* one pass of the loop of fsolve (lines 13-22)
FsolvePass ==
    /\ fcall.status = "running"
    /\ LET F(x) == ApplyFunc(fcall.func, x)
           out == FsolveOutcome(
                      NewtonStep(fcall.x, F(fcall.x), F(fcall.x + H), Xtol),
                      fcall.i, fcall.max_iter)
       IN  fcall' =
             CASE out.kind = "raise" ->
                    [fcall EXCEPT !.status = "raised"]
               [] out.kind = "return" ->
                    [fcall EXCEPT !.status = "returned",
                                  !.result = [kind |-> "float", v |-> out.x]]
               [] out.kind = "none" ->
                    [fcall EXCEPT !.status = "returned", !.x = out.x,
                                  !.i = fcall.i + 1,
                                  !.result = [kind |-> "None", v |-> 0]]
               [] out.kind = "continue" ->
                    [fcall EXCEPT !.x = out.x, !.i = fcall.i + 1]
    /\ UNCHANGED loanVars
    /\ UNCHANGED <<xc, cva, pvcall, tsched, log>>

NextFsolve == FsolvePass

SpecFsolve == InitFsolve /\ [][NextFsolve]_vars

(***************************************************************************)
(* Claims about fsolve and loanSchedule                                    *)
(***************************************************************************)
Generated == pc \in {"scheduled", "solving", "solved", "done"}

\* C1: fsolve returns a value only from a pass in which |x_new - x| < xtol
\* held; a zero derivative or max_iter passes without meeting the tolerance
\* end in an error, never in None and never in the last iterate.
C1_FsolveReturnsOnlyConverged ==
    fcall.status = "returned" =>
        /\ fcall.result.kind = "float"
        /\ Abs(fcall.result.v - fcall.x) < Xtol

\* C2: constructing with amount <= 0, rate < 0 or payments <= 0 fails, and
\* fails before generate_schedule or any calculate_payment has run.
InvalidTerms ==
    terms.amount <= 0 \/ terms.rate < 0 \/ terms.payments <= 0

C2_InvalidTermsRejected ==
    (pc # "idle" /\ InvalidTerms) =>
        /\ ~Generated
        /\ payment_schedule = <<>>
        /\ calls = 0

\* C5: for every N >= 1, after calculate_payment(p): fees_outstanding[0] is
\* start_fee + end_fee; period 1 carries +start_fee, period N carries +end_fee
\* (period 1 carries both when N = 1), every other period carries p alone and
\* leaves fees_outstanding unchanged; so fees_outstanding[N] = 0.
ClaimedFee(k, N) ==
    (IF k = 1 THEN terms.start_fee ELSE 0) + (IF k = N THEN terms.end_fee ELSE 0)

C5_FeeBoundaries ==
    (calls > 0 /\ terms.payments >= 1) =>
        LET N == terms.payments
            fo == ledger.fees_outstanding
            tp == ledger.total_payments
        IN  /\ Len(fo) = N + 1 /\ Len(tp) = N + 1
            /\ fo[1] = terms.start_fee + terms.end_fee
            /\ \A k \in 1..N :
                   /\ tp[k + 1] = last_payment + ClaimedFee(k, N)
                   /\ fo[k + 1] = fo[k] - ClaimedFee(k, N)
            /\ fo[N + 1] = 0

\* C6: whenever construction yields monthly_payment, simulating that payment
\* brings the final closing balance within 1e-2 of the residual, for any
\* start_fee and end_fee.
C6_SolvedPaymentHitsResidual ==
    (pc \in {"solved", "done"} /\ monthly_payment.kind = "float") =>
        Abs(CalcPayment(terms, payment_schedule, monthly_payment.v))
            < MoneyScale \div 100

C6_Witness ==
    /\ pc = "done"
    /\ monthly_payment.kind = "float"
    /\ terms.payments >= 2
    /\ terms.rate > 0
    /\ terms.start_fee > 0
    /\ terms.end_fee > 0
    /\ fs.i >= 1

\* C7: when start_date's day of month equals the payment day (always so when
\* payment_date is omitted), generate_schedule completes and the first
\* payment date is start_date itself.
C7_EqualDayKeepsStartDate ==
    (pc \notin {"idle", "new", "fields"} /\ payment_date # 0
         /\ terms.start_date.d = payment_date) =>
        /\ err # "AttributeError"
        /\ Generated
        /\ first_payment_date = terms.start_date

\* C8: for each recognised frequency name, consecutive payment dates are
\* 12/frequency calendar months apart, frequency being the periods per year of
\* the name (monthly 12, quarterly 4, annually 1), each on the payment day.
PeriodsPerYear(name) ==
    CASE name = "monthly" -> 12
      [] name = "quarterly" -> 4
      [] name = "annually" -> 1

C8_SpacingIsTwelveOverFrequency ==
    (Generated /\ terms.frequency \in {"monthly", "quarterly", "annually"}) =>
        \A i \in 2..(Len(payment_schedule) - 1) :
            /\ MonthsBetween(payment_schedule[i], payment_schedule[i + 1])
                   = 12 \div PeriodsPerYear(terms.frequency)
            /\ payment_schedule[i].d = payment_date
            /\ payment_schedule[i + 1].d = payment_date

\* C9: after initialisation the payment day of month is at most 28 for every
\* input, whether payment_date was supplied or defaulted from start_date.day.
C9_PaymentDayAtMost28 ==
    (pc \notin {"idle", "new"} /\ payment_date # 0) => payment_date <= 28

(***************************************************************************)
(* src/eirmodelling.py: numbers                                            *)
(*                                                                         *)
(* Cash amounts and npv values are integers in units of 1/ValueScale       *)
(* (1e-8, the default tol).  A rate is an exact fraction [n, d], n/d:      *)
(* -0.9999 is [-9999, 10000], an upper bound 10 * 2^k is [10 * 2^k, 1], a  *)
(* bisection midpoint has the doubled denominator, and the Newton iterates *)
(* have d = ValueScale.  A value whose magnitude reaches Cap is kept as    *)
(* +-Cap.  Dates are day numbers; the series of the model lie on a grid of *)
(* DaysPerYear days, so that days / 365 is a whole number of years.        *)
(***************************************************************************)
ValueScale == 10^8
Cap == 2^30
DaysPerYear == 365

Fin(v) == [kind |-> "fin", v |-> v]
Inf == [kind |-> "inf", v |-> Cap]

Max(a, b) == IF a > b THEN a ELSE b

\* <<q, r>> with a * b = q * c + r and 0 <= r < c, for a, b >= 0 and
\* 0 < c < Cap; q is Cap as soon as the quotient reaches Cap
\* the element of a one-element set.  Written Only({F(w) : w \in {e}}), it
\* hands F the value of e, computed once, where F(e) would compute e again
\* at every use of its parameter.
Only(S) == CHOOSE x \in S : TRUE

\* the doubling step: from h = <<q, r>> for a * (b \div 2) to the pair for
\* a * b
MulDivQRStep(h, a, b, c) ==
    IF h[1] >= Cap \div 2 THEN <<Cap, 0>>
    ELSE LET t  == 2 * h[2]
             q2 == 2 * h[1] + (t \div c)
             r2 == t % c
             u  == r2 + (a % c)
             q3 == q2 + (a \div c) + (u \div c)
         IN  IF b % 2 = 0 THEN <<q2, r2>>
             ELSE IF q3 >= Cap THEN <<Cap, 0>>
             ELSE <<q3, u % c>>

\* the pair for the halved b is computed once and handed to the step
RECURSIVE MulDivQR(_, _, _)
MulDivQR(a, b, c) ==
    IF b = 0 THEN <<0, 0>>
    ELSE Only({MulDivQRStep(h, a, b, c) : h \in {MulDivQR(a, b \div 2, c)}})

\* a * b / c truncated toward zero, kept within +-Cap (c > 0)
MulDivSat(a, b, c) ==
    Only({IF (x < 0) = (y < 0) THEN q ELSE -q :
              x \in {a}, y \in {b}, q \in {MulDivQR(Abs(a), Abs(b), c)[1]}})

\* a sum kept within +-Cap
AddSat(a, b) ==
    IF a >= Cap - b /\ b >= 0 /\ a >= 0 THEN Cap
    ELSE IF a <= -Cap - b /\ b <= 0 /\ a <= 0 THEN -Cap
    ELSE Max(-Cap, Min(Cap, a + b))

\* v * (num / den)^k, one factor at a time
RECURSIVE ScalePow(_, _, _, _)
ScalePow(v, num, den, k) ==
    IF k = 0 THEN v
    ELSE Only({ScalePow(w, num, den, k - 1) : w \in {MulDivSat(v, num, den)}})

\* days / 365.0
Years(days) == days \div DaysPerYear

RECURSIVE MaxYears(_, _)
MaxYears(entries, base) ==
    IF entries = <<>> THEN 0
    ELSE Max(Years(Head(entries).date - base), MaxYears(Tail(entries), base))

\* sum of amount * factor^(K - years) over the entries: the npv multiplied
\* by (1 + rate)^K
RECURSIVE ScaledSum(_, _, _, _, _)
ScaledSum(entries, base, num, den, K) ==
    IF entries = <<>> THEN 0
    ELSE Only({AddSat(x, y) :
                   x \in {ScalePow(Head(entries).amount, num, den,
                                   K - Years(Head(entries).date - base))},
                   y \in {ScaledSum(Tail(entries), base, num, den, K)}})

\* sum of amount / (1 + rate)^years over the entries
RECURSIVE DirectSum(_, _, _, _)
DirectSum(entries, base, num, den) ==
    IF entries = <<>> THEN 0
    ELSE Only({AddSat(x, y) :
                   x \in {ScalePow(Head(entries).amount, den, num,
                                   Years(Head(entries).date - base))},
                   y \in {DirectSum(Tail(entries), base, num, den)}})

\* (vals / (1 + rate) ** (days / 365)).sum() for 1 + rate = num / den > 0.
\* For 1 + rate < 1 the terms grow with the years: the sum is then formed
\* over the common denominator (1 + rate)^K, where no term leaves the
\* integer range, and divided by it afterwards.
DiscountedSum(entries, base, rate) ==
    LET num == rate.d + rate.n
        den == rate.d
    IN  IF num >= den
        THEN DirectSum(entries, base, num, den)
        ELSE LET K == MaxYears(entries, base)
             IN  Only({ScalePow(x, den, num, K) :
                           x \in {ScaledSum(entries, base, num, den, K)}})

(***************************************************************************)
(* src/eirmodelling.py: series, compute_pv_of_cashflows                    *)
(***************************************************************************)
\* insert e into a series sorted by date, after the entries of its date
RECURSIVE Insert(_, _)
Insert(e, sorted) ==
    IF sorted = <<>> THEN <<e>>
    ELSE IF Head(sorted).date <= e.date
         THEN Only({<<Head(sorted)>> \o rest :
                        rest \in {Insert(e, Tail(sorted))}})
         ELSE <<e>> \o sorted

\* the series taken in the order it was given
SortSeriesKeepsOrder(series) == series

\* series.sort_index()
RECURSIVE SortSeries(_)
SortSeries(series) ==
    IF series = <<>> THEN <<>>
    ELSE Only({Insert(series[Len(series)], sorted) :
                   sorted \in {SortSeries(SubSeq(series, 1,
                                                 Len(series) - 1))}})

\* series[series.index > base]
RECURSIVE FromDateStrict(_, _)
FromDateStrict(series, base) ==
    IF series = <<>> THEN <<>>
    ELSE IF Head(series).date > base
         THEN <<Head(series)>> \o FromDateStrict(Tail(series), base)
         ELSE FromDateStrict(Tail(series), base)

\* series[series.index >= base]
RECURSIVE FromDate(_, _)
FromDate(series, base) ==
    IF series = <<>> THEN <<>>
    ELSE IF Head(series).date >= base
         THEN <<Head(series)>> \o FromDate(Tail(series), base)
         ELSE FromDate(Tail(series), base)

\* compute_pv_of_cashflows(cashflows, discount_rate, base_date), for
\* 1 + discount_rate > 0
ComputePv(cashflows, rate, base_date) ==
    IF cashflows = <<>> THEN 0
    ELSE LET remaining == FromDate(SortSeries(cashflows), base_date)
         IN  IF remaining = <<>> THEN 0
             ELSE DiscountedSum(remaining, base_date, rate)

(***************************************************************************)
(* src/eirmodelling.py: xirr                                               *)
(***************************************************************************)
Lower == [n |-> -9999, d |-> 10000]
InitialUpper == 10
MaxExpansions == 50
UpperLimit == 10^6
DefaultGuess == [n |-> 5 * (ValueScale \div 100), d |-> ValueScale]
DefaultTol == ValueScale \div 10^8
DefaultMaxIterXirr == 200

\* series.values
Vals(series) == [i \in 1..Len(series) |-> series[i].amount]

\* np.any(vals > 0) and np.any(vals < 0), with zeros counted on both sides
HasBothSignsCountingZero(vals) ==
    /\ \E i \in 1..Len(vals) : vals[i] >= 0
    /\ \E i \in 1..Len(vals) : vals[i] <= 0

\* np.any(vals > 0) and np.any(vals < 0)
HasBothSigns(vals) ==
    /\ \E i \in 1..Len(vals) : vals[i] > 0
    /\ \E i \in 1..Len(vals) : vals[i] < 0

\* npv(rate) of xirr, at a rate [n, d]; base is series.index[0].  The
\* guard rate <= -0.9999999999 is 1 + rate <= 1e-10, which for d below 1e10
\* is d + n <= 0
XirrNpv(series, rate) ==
    IF rate.d + rate.n <= 0 THEN Inf
    ELSE Fin(DiscountedSum(series, series[1].date, rate))

\* the sign of f * g for two finite values
SignProd(f, g) == Sign(f.v) * Sign(g.v)

\* 0.5 * (a + b); the denominators are 1 or 10000 * 2^j
Mid(a, b) ==
    LET D == Max(a.d, b.d)
    IN  [n |-> a.n * (D \div a.d) + b.n * (D \div b.d), d |-> 2 * D]

\* a call xirr(cashflows, guess, tol, max_iter) at its first line
NewXirr(cashflows, guess, tol, max_iter) ==
    [IdleXirr EXCEPT !.pc = "entry", !.cashflows = cashflows,
                     !.guess = guess, !.tol = tol, !.max_iter = max_iter]

\* the entry of xirr with the sort done on the caller's series itself
XirrEntrySortsInPlace ==
    /\ xc.pc = "entry"
    /\ LET series == SortSeries(xc.cashflows)
       IN  xc' = IF series = <<>> \/ ~HasBothSigns(Vals(series))
                 THEN [xc EXCEPT !.pc = "raised", !.err = "ValueError",
                                 !.series = series, !.cashflows = series]
                 ELSE [xc EXCEPT !.pc = "bracket", !.series = series,
                                 !.cashflows = series]
    /\ UNCHANGED loanVars
    /\ UNCHANGED <<fcall, cva, pvcall, tsched, log>>

\* lines 103-109: sort, the empty check, the sign check
XirrEntry ==
    /\ xc.pc = "entry"
    /\ LET series == SortSeries(xc.cashflows)
       IN  xc' = IF series = <<>> \/ ~HasBothSigns(Vals(series))
                 THEN [xc EXCEPT !.pc = "raised", !.err = "ValueError",
                                 !.series = series]
                 ELSE [xc EXCEPT !.pc = "bracket", !.series = series]
    /\ UNCHANGED loanVars
    /\ UNCHANGED <<fcall, cva, pvcall, tsched, log>>

\* lines 119-125: the first bracket
XirrBracket ==
    /\ xc.pc = "bracket"
    /\ xc' = [xc EXCEPT !.pc = "expand",
                        !.upper = InitialUpper,
                        !.f_low = XirrNpv(xc.series, Lower),
                        !.f_high = XirrNpv(xc.series,
                                           [n |-> InitialUpper, d |-> 1]),
                        !.expansions = 0,
                        !.npv_calls = xc.npv_calls + 2]
    /\ UNCHANGED loanVars
    /\ UNCHANGED <<fcall, cva, pvcall, tsched, log>>

\* the expansion loop without the break of lines 130-131
XirrExpandNoLimit ==
    /\ xc.pc = "expand"
    /\ xc' = IF SignProd(xc.f_low, xc.f_high) > 0
                 /\ xc.expansions < MaxExpansions
             THEN LET upper == 2 * xc.upper
                  IN  [xc EXCEPT !.upper = upper,
                                 !.f_high = XirrNpv(xc.series,
                                                    [n |-> upper, d |-> 1]),
                                 !.expansions = xc.expansions + 1,
                                 !.npv_calls = xc.npv_calls + 1]
             ELSE [xc EXCEPT !.pc = "bracketed"]
    /\ UNCHANGED loanVars
    /\ UNCHANGED <<fcall, cva, pvcall, tsched, log>>

\* lines 126-131: the loop test, and one pass of the expansion loop
XirrExpand ==
    /\ xc.pc = "expand"
    /\ xc' = IF SignProd(xc.f_low, xc.f_high) > 0
                 /\ xc.expansions < MaxExpansions
             THEN LET upper == 2 * xc.upper
                  IN  [xc EXCEPT !.upper = upper,
                                 !.f_high = XirrNpv(xc.series,
                                                    [n |-> upper, d |-> 1]),
                                 !.expansions = xc.expansions + 1,
                                 !.npv_calls = xc.npv_calls + 1,
                                 !.pc = IF upper > UpperLimit
                                        THEN "bracketed" ELSE "expand"]
             ELSE [xc EXCEPT !.pc = "bracketed"]
    /\ UNCHANGED loanVars
    /\ UNCHANGED <<fcall, cva, pvcall, tsched, log>>

\* the choice that goes to bisection whatever the signs at the bounds
XirrChooseAlwaysBisect ==
    /\ xc.pc = "bracketed"
    /\ xc' = [xc EXCEPT !.pc = "bisect", !.iter = 0,
                        !.a = Lower,
                        !.b = [n |-> xc.upper, d |-> 1],
                        !.fa = xc.f_low, !.fb = xc.f_high]
    /\ UNCHANGED loanVars
    /\ UNCHANGED <<fcall, cva, pvcall, tsched, log>>

\* line 132: Newton from guess (line 134) when the signs still agree, else
\* bisection on [lower, upper] (lines 149-150)
XirrChoose ==
    /\ xc.pc = "bracketed"
    /\ xc' = IF SignProd(xc.f_low, xc.f_high) > 0
             THEN [xc EXCEPT !.pc = "newton", !.iter = 0,
                             !.rate = [kind |-> "fin",
                                       n |-> MulDivSat(xc.guess.n, ValueScale,
                                                       xc.guess.d)]]
             ELSE [xc EXCEPT !.pc = "bisect", !.iter = 0,
                             !.a = Lower,
                             !.b = [n |-> xc.upper, d |-> 1],
                             !.fa = xc.f_low, !.fb = xc.f_high]
    /\ UNCHANGED loanVars
    /\ UNCHANGED <<fcall, cva, pvcall, tsched, log>>

\* h of line 138 for a Newton iterate n / ValueScale
NewtonH(n) ==
    IF Abs(n) < ValueScale THEN ValueScale \div 10^6 ELSE Abs(n) \div 10^6

\* the update that returns the new iterate whatever the size of the step
NewtonUpdateNoTolerance(rate, h, f, f1, tol) ==
    IF f.kind = "inf"
    THEN [kind |-> "continue", rate |-> [kind |-> "nan", n |-> 0]]
    ELSE IF f1.v = f.v THEN [kind |-> "break", rate |-> rate]
    ELSE LET diff == f1.v - f.v
             step == Sign(diff) * MulDivSat(f.v, h, Abs(diff))
         IN  [kind |-> "return", rate |-> [kind |-> "fin", n |-> rate.n - step]]

\* lines 139-146: from f = npv(rate) and f1 = npv(rate + h) to the break,
\* the return or the next iterate
NewtonUpdate(rate, h, f, f1, tol) ==
    IF f.kind = "inf"
    THEN [kind |-> "continue", rate |-> [kind |-> "nan", n |-> 0]]
    ELSE IF f1.v = f.v THEN [kind |-> "break", rate |-> rate]
    ELSE LET diff == f1.v - f.v
             step == Sign(diff) * MulDivSat(f.v, h, Abs(diff))
             new_rate == [kind |-> "fin", n |-> rate.n - step]
         IN  IF Abs(step) < tol
             THEN [kind |-> "return", rate |-> new_rate]
             ELSE [kind |-> "continue", rate |-> new_rate]

\* one pass of the Newton loop (lines 136-146) at the iterate rate.  A nan
\* iterate, and an iterate where npv is inf, give new_rate = nan: no
\* comparison with nan holds, and the loop goes on with it.
XirrNewtonStep(series, rate, tol) ==
    IF rate.kind = "nan" THEN [kind |-> "continue", rate |-> rate]
    ELSE Only({NewtonUpdate(rate, NewtonH(rate.n), f, f1, tol) :
                   f \in {XirrNpv(series, [n |-> rate.n, d |-> ValueScale])},
                   f1 \in {XirrNpv(series, [n |-> rate.n + NewtonH(rate.n),
                                             d |-> ValueScale])}})

\* lines 135-147: the loop test and one pass of the Newton loop; the loop
\* left by break or by exhaustion raises
XirrNewton ==
    /\ xc.pc = "newton"
    /\ xc' = IF xc.iter >= xc.max_iter
             THEN [xc EXCEPT !.pc = "raised", !.err = "RuntimeError"]
             ELSE Only({
                 CASE out.kind = "break" ->
                        [xc EXCEPT !.pc = "raised",
                                   !.err = "RuntimeError",
                                   !.npv_calls = xc.npv_calls + 2]
                   [] out.kind = "return" ->
                        [xc EXCEPT !.pc = "returned", !.ret = "newton",
                                   !.result = [n |-> out.rate.n,
                                               d |-> ValueScale],
                                   !.npv_calls = xc.npv_calls + 2]
                   [] out.kind = "continue" ->
                        [xc EXCEPT !.rate = out.rate,
                                   !.iter = xc.iter + 1,
                                   !.npv_calls = xc.npv_calls + 2] :
                 out \in {XirrNewtonStep(xc.series, xc.rate, xc.tol)}})
    /\ UNCHANGED loanVars
    /\ UNCHANGED <<fcall, cva, pvcall, tsched, log>>

\* one pass of the bisection loop whose exit test is fm < tol
XirrBisectStepNoAbs(series, a, b, fa, fb, tol) ==
    Only({IF fm.v < tol
          THEN [kind |-> "return", m |-> m, a |-> a, b |-> b,
                fa |-> fa, fb |-> fb]
          ELSE IF SignProd(fa, fm) <= 0
          THEN [kind |-> "continue", m |-> m, a |-> a, b |-> m,
                fa |-> fa, fb |-> fm]
          ELSE [kind |-> "continue", m |-> m, a |-> m, b |-> b,
                fa |-> fm, fb |-> fb] :
          m \in {Mid(a, b)}, fm \in {XirrNpv(series, Mid(a, b))}})

\* one pass of the bisection loop (lines 153-161) on the bracket [a, b]
XirrBisectStep(series, a, b, fa, fb, tol) ==
    Only({IF Abs(fm.v) < tol
          THEN [kind |-> "return", m |-> m, a |-> a, b |-> b,
                fa |-> fa, fb |-> fb]
          ELSE IF SignProd(fa, fm) <= 0
          THEN [kind |-> "continue", m |-> m, a |-> a, b |-> m,
                fa |-> fa, fb |-> fm]
          ELSE [kind |-> "continue", m |-> m, a |-> m, b |-> b,
                fa |-> fm, fb |-> fb] :
          m \in {Mid(a, b)}, fm \in {XirrNpv(series, Mid(a, b))}})

\* the bisection loop whose early exit returns the upper end of the bracket
\* in place of the midpoint it has tested
XirrBisectReturnsBound ==
    /\ xc.pc = "bisect"
    /\ xc' = IF xc.iter >= xc.max_iter
             THEN [xc EXCEPT !.pc = "returned", !.ret = "midpoint",
                             !.result = Mid(xc.a, xc.b)]
             ELSE Only({
                 IF out.kind = "return"
                 THEN [xc EXCEPT !.pc = "returned", !.ret = "early",
                                 !.result = out.b,
                                 !.npv_calls = xc.npv_calls + 1]
                 ELSE [xc EXCEPT !.a = out.a, !.b = out.b,
                                 !.fa = out.fa, !.fb = out.fb,
                                 !.iter = xc.iter + 1,
                                 !.npv_calls = xc.npv_calls + 1] :
                 out \in {XirrBisectStep(xc.series, xc.a, xc.b,
                                         xc.fa, xc.fb, xc.tol)}})
    /\ UNCHANGED loanVars
    /\ UNCHANGED <<fcall, cva, pvcall, tsched, log>>

\* lines 152-163: the loop test and one pass of the bisection loop; after
\* max_iter passes the midpoint of the last bracket is returned
XirrBisect ==
    /\ xc.pc = "bisect"
    /\ xc' = IF xc.iter >= xc.max_iter
             THEN [xc EXCEPT !.pc = "returned", !.ret = "midpoint",
                             !.result = Mid(xc.a, xc.b)]
             ELSE Only({
                 IF out.kind = "return"
                 THEN [xc EXCEPT !.pc = "returned", !.ret = "early",
                                 !.result = out.m,
                                 !.npv_calls = xc.npv_calls + 1]
                 ELSE [xc EXCEPT !.a = out.a, !.b = out.b,
                                 !.fa = out.fa, !.fb = out.fb,
                                 !.iter = xc.iter + 1,
                                 !.npv_calls = xc.npv_calls + 1] :
                 out \in {XirrBisectStep(xc.series, xc.a, xc.b,
                                         xc.fa, xc.fb, xc.tol)}})
    /\ UNCHANGED loanVars
    /\ UNCHANGED <<fcall, cva, pvcall, tsched, log>>

XirrStep ==
    \/ XirrEntry
    \/ XirrBracket
    \/ XirrExpand
    \/ XirrChoose
    \/ XirrNewton
    \/ XirrBisect

(***************************************************************************)
(* Calls xirr(cashflows, guess, tol, max_iter) on series of the yearly     *)
(* grid.  Amounts are in currency units of 1e-8.                           *)
(***************************************************************************)
MaxIterXirr == 3

Entry(year, amount) == [date |-> year * DaysPerYear, amount |-> amount]

\* 0.4 and the like, as amounts
Cents(c) == c * (ValueScale \div 100)

XirrSeries ==
    { <<>>,
      \* one sign only, with and without zeros
      <<Entry(0, Cents(100)), Entry(1, Cents(50))>>,
      <<Entry(0, Cents(-100)), Entry(1, Cents(-50))>>,
      <<Entry(0, 0), Entry(1, Cents(100))>>,
      <<Entry(0, Cents(-100)), Entry(1, 0)>>,
      <<Entry(0, 0)>>,
      \* proceeds of 0.95 repaid by three receipts of 0.4
      <<Entry(0, Cents(-95)), Entry(1, Cents(40)), Entry(2, Cents(40)),
        Entry(3, Cents(40))>>,
      \* the same, not in date order
      <<Entry(2, Cents(40)), Entry(0, Cents(-95)), Entry(3, Cents(40)),
        Entry(1, Cents(40))>>,
      \* proceeds of 0.06 repaid by three receipts of 0.1: with tol = 0.01
      \* the second midpoint passes the exit test
      <<Entry(0, Cents(-6)), Entry(1, Cents(10)), Entry(2, Cents(10)),
        Entry(3, Cents(10))>>,
      \* rates 4.50005 and 1.750075, the first two midpoints; the second
      \* not in date order
      <<Entry(0, Cents(-100)), Entry(1, 550005000)>>,
      <<Entry(1, 275007500), Entry(0, Cents(-100))>>,
      \* rate 15, above the first upper bound
      <<Entry(0, Cents(-10)), Entry(1, Cents(160))>>,
      \* rate -0.5
      <<Entry(0, Cents(-100)), Entry(1, Cents(50))>>,
      \* a double root at 0, and no root: no sign change anywhere
      <<Entry(0, Cents(100)), Entry(1, Cents(-200)), Entry(2, Cents(100))>>,
      <<Entry(0, Cents(-100)), Entry(1, Cents(200)), Entry(2, Cents(-150))>>,
      \* a root below the lower bound
      <<Entry(0, Cents(-100)), Entry(1, 5000)>>,
      \* all on one date
      <<Entry(0, Cents(-100)), Entry(0, Cents(100))>>,
      <<Entry(0, Cents(-100)), Entry(0, Cents(300))>> }

Guesses == {DefaultGuess, [n |-> 1, d |-> 2]}

Tols == {DefaultTol, ValueScale \div 100}

InitXirr ==
    /\ terms = IdleTerms
    /\ pc = "idle"
    /\ LoanFresh
    /\ fcall = IdleCall
    /\ cva = IdleCva
    /\ NoOtherCalls
    /\ \E s \in XirrSeries, g \in Guesses, t \in Tols, n \in 1..MaxIterXirr :
           xc = NewXirr(s, g, t, n)

NextXirr == XirrStep

SpecXirr == InitXirr /\ [][NextXirr]_vars

(***************************************************************************)
(* src/eirmodelling.py: compute_carrying_value_adjustments                 *)
(***************************************************************************)
\* sorted(reforecasts.items()): the keys in ascending order
RECURSIVE SortedDates(_)
SortedDates(dates) ==
    IF dates = {} THEN <<>>
    ELSE LET first == CHOOSE d \in dates : \A e \in dates : d <= e
         IN  <<first>> \o SortedDates(dates \ {first})

\* the row of lines 224-234, discounting to the first date of the original
\* schedule
CvaRowOfAtOrigin(orig, rf_series, eir, rd) ==
    LET base == IF orig = <<>> THEN rd ELSE orig[1].date
        pv_orig == ComputePv(FromDate(orig, rd), eir, base)
        pv_rf == ComputePv(FromDate(SortSeries(rf_series), rd), eir, base)
    IN  [reforecast_date |-> rd, pv_original |-> pv_orig,
         pv_reforecast |-> pv_rf, adjustment |-> pv_rf - pv_orig]

\* the row of lines 224-234 for the reforecast date rd
CvaRowOf(orig, rf_series, eir, rd) ==
    LET remaining_orig == FromDate(orig, rd)
        pv_orig == ComputePv(remaining_orig, eir, rd)
        rf == SortSeries(rf_series)
        rf_remaining == FromDate(rf, rd)
        pv_rf == ComputePv(rf_remaining, eir, rd)
    IN  [reforecast_date |-> rd, pv_original |-> pv_orig,
         pv_reforecast |-> pv_rf, adjustment |-> pv_rf - pv_orig]

\* line 223: the loop over the sorted items starts with the rate eir
StartRows(c, eir) ==
    [c EXCEPT !.pc = "rows", !.eir = eir,
              !.todo = SortedDates(DOMAIN c.reforecasts), !.rows = <<>>]

\* lines 219-221 with the test `if not eir`: a supplied rate of 0.0 is
\* taken as not supplied
CvaStartFalsyEir ==
    /\ cva.pc = "entry"
    /\ LET orig == SortSeries(cva.original)
       IN  IF cva.eir_arg = {} \/ cva.eir_arg = {[n |-> 0, d |-> 1]}
           THEN /\ cva' = [cva EXCEPT !.pc = "eir", !.orig = orig]
                /\ xc' = NewXirr(orig, DefaultGuess, DefaultTol,
                                 DefaultMaxIterXirr)
           ELSE /\ cva' = StartRows([cva EXCEPT !.orig = orig],
                                    CHOOSE e \in cva.eir_arg : TRUE)
                /\ xc' = xc
    /\ UNCHANGED loanVars
    /\ UNCHANGED <<fcall, pvcall, tsched, log>>

\* lines 219-221: sort the original; with eir None, call
\* calculate_eir_for_loan(orig), which is xirr(orig)
CvaStart ==
    /\ cva.pc = "entry"
    /\ LET orig == SortSeries(cva.original)
       IN  IF cva.eir_arg = {}
           THEN /\ cva' = [cva EXCEPT !.pc = "eir", !.orig = orig]
                /\ xc' = NewXirr(orig, DefaultGuess, DefaultTol,
                                 DefaultMaxIterXirr)
           ELSE /\ cva' = StartRows([cva EXCEPT !.orig = orig],
                                    CHOOSE e \in cva.eir_arg : TRUE)
                /\ xc' = xc
    /\ UNCHANGED loanVars
    /\ UNCHANGED <<fcall, pvcall, tsched, log>>

\* line 221: xirr returns the rate, or its error ends the call
CvaEir ==
    /\ cva.pc = "eir"
    /\ xc.pc \in {"returned", "raised"}
    /\ cva' = IF xc.pc = "returned"
              THEN StartRows(cva, xc.result)
              ELSE [cva EXCEPT !.pc = "raised", !.err = xc.err]
    /\ UNCHANGED loanVars
    /\ UNCHANGED <<fcall, xc, pvcall, tsched, log>>

\* lines 223-234: one pass of the loop
CvaRow ==
    /\ cva.pc = "rows"
    /\ cva.todo # <<>>
    /\ LET rd == Head(cva.todo)
       IN  cva' = [cva EXCEPT
                     !.rows = Append(cva.rows,
                                     CvaRowOf(cva.orig, cva.reforecasts[rd],
                                              cva.eir, rd)),
                     !.todo = Tail(cva.todo)]
    /\ UNCHANGED loanVars
    /\ UNCHANGED <<fcall, xc, pvcall, tsched, log>>

\* lines 235-236: the frame of the rows; a frame of no rows has no column
\* "reforecast_date" to index by
CvaFrame ==
    /\ cva.pc = "rows"
    /\ cva.todo = <<>>
    /\ cva' = IF cva.rows = <<>>
              THEN [cva EXCEPT !.pc = "raised", !.err = "KeyError"]
              ELSE [cva EXCEPT !.pc = "returned"]
    /\ UNCHANGED loanVars
    /\ UNCHANGED <<fcall, xc, pvcall, tsched, log>>

(***************************************************************************)
(* Calls compute_carrying_value_adjustments(original, reforecasts, eir).   *)
(* The calls with eir None are on schedules whose rate xirr settles in its *)
(* first passes, or not at all.                                            *)
(***************************************************************************)
RefDates == {1 * DaysPerYear, 2 * DaysPerYear}

RfSeries ==
    { <<>>,
      <<Entry(1, Cents(38)), Entry(2, Cents(38)), Entry(3, Cents(38))>>,
      <<Entry(3, Cents(50)), Entry(1, Cents(30))>> }

ReforecastMaps ==
    UNION {[D -> RfSeries] : D \in SUBSET RefDates}

RatedOriginals ==
    { <<Entry(2, Cents(40)), Entry(0, Cents(-95)), Entry(3, Cents(40)),
        Entry(1, Cents(40))>>,
      <<Entry(0, Cents(-100)), Entry(1, 550005000)>>,
      <<Entry(1, Cents(100)), Entry(2, Cents(50))>> }

UnratedOriginals ==
    { <<Entry(0, Cents(-100)), Entry(1, 550005000)>>,
      <<Entry(1, 275007500), Entry(0, Cents(-100))>>,
      <<Entry(1, Cents(100)), Entry(2, Cents(50))>>,
      <<Entry(0, Cents(-100)), Entry(1, Cents(200)), Entry(2, Cents(-150))>> }

EirArgs == {[n |-> 5, d |-> 100], [n |-> -1, d |-> 10], [n |-> 0, d |-> 1]}

CvaCalls ==
    {[IdleCva EXCEPT !.pc = "entry", !.original = o, !.reforecasts = r,
                     !.eir_arg = {e}] :
         o \in RatedOriginals, r \in ReforecastMaps, e \in EirArgs}
    \cup {[IdleCva EXCEPT !.pc = "entry", !.original = o, !.reforecasts = r] :
              o \in UnratedOriginals, r \in ReforecastMaps}

InitCva ==
    /\ terms = IdleTerms
    /\ pc = "idle"
    /\ LoanFresh
    /\ fcall = IdleCall
    /\ xc = IdleXirr
    /\ cva \in CvaCalls
    /\ NoOtherCalls

NextCva ==
    \/ CvaStart
    \/ XirrStep
    \/ CvaEir
    \/ CvaRow
    \/ CvaFrame

SpecCva == InitCva /\ [][NextCva]_vars

(***************************************************************************)
(* Properties of xirr and of compute_carrying_value_adjustments            *)
(***************************************************************************)
\* the earliest date of a non-empty series
EarliestDate(series) ==
    CHOOSE d \in {series[i].date : i \in 1..Len(series)} :
        \A i \in 1..Len(series) : d <= series[i].date

\* 1e-8, as an amount
NpvBound == ValueScale \div 10^8

\* C3: for every cash-flow series on which xirr returns a rate e, by any of
\* its three return paths (early bisection exit, midpoint after the
\* bisection budget, Newton fallback), compute_pv_of_cashflows(series, e,
\* earliest date of the series) is within 1e-8 of zero.  Stated for the
\* calls that keep the default tol.
C3_NpvZeroAtReturnedRate ==
    (xc.pc = "returned" /\ xc.tol = DefaultTol)
        => Abs(ComputePv(xc.cashflows, xc.result,
                         EarliestDate(xc.cashflows))) <= NpvBound

\* C3, amended: for every cash-flow series on which xirr returns a rate e
\* by its early bisection exit, compute_pv_of_cashflows(series, e, earliest
\* date of the series) is within tol of zero (1e-8 with the default tol).
C3_EarlyExitNpvWithinTol ==
    (xc.pc = "returned" /\ xc.ret = "early")
        => Abs(ComputePv(xc.cashflows, xc.result,
                         EarliestDate(xc.cashflows))) < xc.tol

\* a call with the default tol, on a series given out of date order, has
\* left the bisection by its early exit in the second pass
C3_Witness ==
    /\ xc.pc = "returned"
    /\ xc.ret = "early"
    /\ xc.tol = DefaultTol
    /\ xc.iter >= 1
    /\ xc.cashflows # xc.series

\* the series is empty, or has no strictly positive amount, or has no
\* strictly negative amount
NoSignMix(cashflows) ==
    \/ cashflows = <<>>
    \/ \A i \in 1..Len(cashflows) : cashflows[i].amount <= 0
    \/ \A i \in 1..Len(cashflows) : cashflows[i].amount >= 0

\* C4: xirr on an empty series, or on a series that has no strictly
\* positive amount or no strictly negative amount (zeros count as
\* neither), fails with an error, and it does so before npv is evaluated
\* at any rate: the call is at its first line or has raised ValueError, and
\* npv has not been called.
C4_InvalidSeriesFailBeforeNpv ==
    (xc.pc # "idle" /\ NoSignMix(xc.cashflows))
        => /\ xc.pc \in {"entry", "raised"}
           /\ xc.pc = "raised" => xc.err = "ValueError"
           /\ xc.npv_calls = 0

\* a series of zeros and amounts of one sign has been refused
C4_Witness ==
    /\ xc.pc = "raised"
    /\ xc.err = "ValueError"
    /\ xc.npv_calls = 0
    /\ \E i \in 1..Len(xc.cashflows) : xc.cashflows[i].amount = 0
    /\ \E i \in 1..Len(xc.cashflows) : xc.cashflows[i].amount # 0

\* the entries of a series, as given, that are dated rd or later
TailOf(series, rd) == SelectSeq(series, LAMBDA e : e.date >= rd)

\* C10: for every reforecast date rd, the emitted row has pv_original =
\* compute_pv_of_cashflows(original entries dated >= rd, rate, rd),
\* pv_reforecast = compute_pv_of_cashflows(that date's reforecast entries
\* dated >= rd, rate, rd) and adjustment = pv_reforecast - pv_original; the
\* entries dated before rd and the reforecast series of other dates have no
\* influence on the row.  The rows of a returned call are those of the
\* reforecast dates, one each.
C10_RowsArePvsOfTails ==
    /\ \A i \in 1..Len(cva.rows) :
           LET row == cva.rows[i]
               rd == row.reforecast_date
           IN  /\ rd \in DOMAIN cva.reforecasts
               /\ row.pv_original =
                      ComputePv(TailOf(cva.original, rd), cva.eir, rd)
               /\ row.pv_reforecast =
                      ComputePv(TailOf(cva.reforecasts[rd], rd), cva.eir, rd)
               /\ row.adjustment = row.pv_reforecast - row.pv_original
    /\ cva.pc = "returned" =>
           /\ Len(cva.rows) = Cardinality(DOMAIN cva.reforecasts)
           /\ \A rd \in DOMAIN cva.reforecasts :
                  \E i \in 1..Len(cva.rows) : cva.rows[i].reforecast_date = rd

\* a returned call with two rows, the second for a date that has earlier
\* entries both in the original and in its own reforecast, and a reforecast
\* of the other date that differs from its own
C10_Witness ==
    /\ cva.pc = "returned"
    /\ Len(cva.rows) = 2
    /\ LET rd == cva.rows[2].reforecast_date
           other == cva.rows[1].reforecast_date
       IN  /\ \E i \in 1..Len(cva.original) : cva.original[i].date < rd
           /\ \E i \in 1..Len(cva.reforecasts[rd]) :
                  cva.reforecasts[rd][i].date < rd
           /\ cva.reforecasts[other] # cva.reforecasts[rd]
           /\ cva.rows[2].adjustment # 0
           /\ cva.rows[2].pv_original # 0

\* the dates of the rows, in the order of the rows
RowDates(rows) == [i \in 1..Len(rows) |-> rows[i].reforecast_date]

\* C11: for every reforecast mapping, compute_carrying_value_adjustments
\* emits exactly one row per key of the mapping (zero rows for an empty
\* mapping), in ascending reforecast-date order, and no two rows share a
\* reforecast date: a call ends in an error only when its rate cannot be
\* computed, and a returned call has these rows.
C11_OneRowPerKeyAscending ==
    /\ cva.pc = "raised" => cva.err \in {"ValueError", "RuntimeError"}
    /\ cva.pc = "returned" =>
           /\ Len(cva.rows) = Cardinality(DOMAIN cva.reforecasts)
           /\ {RowDates(cva.rows)[i] : i \in 1..Len(cva.rows)}
                  = DOMAIN cva.reforecasts
           /\ \A i, j \in 1..Len(cva.rows) :
                  i < j => RowDates(cva.rows)[i] < RowDates(cva.rows)[j]

\* C12: compute_carrying_value_adjustments uses one rate for all rows: the
\* supplied eir when one is given (xirr is then never run, so an original
\* series without mixed signs is accepted, and eir = 0.0 counts as
\* supplied), otherwise xirr(original), computed once before any row is
\* built; if that rate computation fails the call fails and has no rows.
C12_OneRateForAllRows ==
    /\ cva.eir_arg # {} =>
           /\ xc = IdleXirr
           /\ cva.pc # "eir"
           /\ cva.pc = "raised" => cva.err \notin {"ValueError", "RuntimeError"}
           /\ cva.pc \in {"rows", "returned"} => cva.eir \in cva.eir_arg
    /\ (cva.eir_arg = {} /\ cva.pc # "entry") =>
           /\ xc.cashflows = cva.orig
           /\ cva.pc \in {"rows", "returned"} =>
                  (xc.pc = "returned" /\ cva.eir = xc.result)
           /\ xc.pc # "returned" => cva.rows = <<>>
           /\ (xc.pc = "raised" /\ cva.pc # "eir") =>
                  (cva.pc = "raised" /\ cva.err = xc.err)
    /\ \A i \in 1..Len(cva.rows) :
           cva.rows[i] =
               CvaRowOf(cva.orig,
                        cva.reforecasts[cva.rows[i].reforecast_date],
                        cva.eir, cva.rows[i].reforecast_date)

\* a call given eir = 0.0 and an original series of receipts only has
\* returned two rows
C12_Witness ==
    /\ cva.pc = "returned"
    /\ cva.eir_arg = {[n |-> 0, d |-> 1]}
    /\ \A i \in 1..Len(cva.original) : cva.original[i].amount > 0
    /\ Len(cva.rows) = 2

(***************************************************************************)
(* Calls compute_pv_of_cashflows(cashflows, discount_rate, base_date)      *)
(***************************************************************************)
PvSeries ==
    { <<>>,
      <<Entry(1, Cents(40))>>,
      <<Entry(0, Cents(-95)), Entry(1, Cents(40)), Entry(2, Cents(40)),
        Entry(3, Cents(40))>>,
      <<Entry(2, Cents(40)), Entry(0, Cents(-95)), Entry(3, Cents(40)),
        Entry(1, Cents(40))>>,
      <<Entry(1, Cents(30)), Entry(1, Cents(-10))>>,
      <<Entry(3, Cents(50)), Entry(1, Cents(30)), Entry(0, Cents(20))>> }

PvRates == {[n |-> 0, d |-> 1], [n |-> 5, d |-> 100], [n |-> -1, d |-> 10]}

PvBases == {k * DaysPerYear : k \in 0..4}

PvCalls ==
    {[IdlePv EXCEPT !.pc = "entry", !.cashflows = s, !.rate = r,
                    !.base_date = b] :
         s \in PvSeries, r \in PvRates, b \in PvBases}

InitPv ==
    /\ terms = IdleTerms
    /\ pc = "idle"
    /\ LoanFresh
    /\ fcall = IdleCall
    /\ xc = IdleXirr
    /\ cva = IdleCva
    /\ tsched = IdleSched
    /\ log = <<>>
    /\ pvcall \in PvCalls

\* lines 73-85
PvCall ==
    /\ pvcall.pc = "entry"
    /\ pvcall' = [pvcall EXCEPT
                    !.pc = "returned",
                    !.result = ComputePv(pvcall.cashflows, pvcall.rate,
                                         pvcall.base_date)]
    /\ UNCHANGED loanVars
    /\ UNCHANGED <<fcall, xc, cva, tsched, log>>

NextPv == PvCall

SpecPv == InitPv /\ [][NextPv]_vars

RECURSIVE SumAmounts(_)
SumAmounts(series) ==
    IF series = <<>> THEN 0
    ELSE Head(series).amount + SumAmounts(Tail(series))

\* the sum of the present values of the entries of a series, each taken
\* alone
RECURSIVE SumOfSinglePvs(_, _, _)
SumOfSinglePvs(series, rate, base) ==
    IF series = <<>> THEN 0
    ELSE ComputePv(<<Head(series)>>, rate, base)
             + SumOfSinglePvs(Tail(series), rate, base)

\* C13: compute_pv_of_cashflows counts exactly the entries dated on or
\* after base_date: the result is that of the qualifying entries alone
\* (entries strictly before base_date contribute nothing), an entry dated
\* exactly base_date contributes its undiscounted amount, each qualifying
\* entry contributes its own present value (stated at rates >= 0, where the
\* model forms the sum term by term), and the result is 0 when the series
\* is empty or no entry qualifies.
C13_PvCountsEntriesFromBase ==
    pvcall.pc = "returned" =>
        LET q == TailOf(pvcall.cashflows, pvcall.base_date)
        IN  /\ pvcall.result = ComputePv(q, pvcall.rate, pvcall.base_date)
            /\ q = <<>> => pvcall.result = 0
            /\ (\A i \in 1..Len(q) : q[i].date = pvcall.base_date)
                   => pvcall.result = SumAmounts(q)
            /\ pvcall.rate.n >= 0
                   => pvcall.result
                          = SumOfSinglePvs(q, pvcall.rate, pvcall.base_date)

\* a call at a rate other than 0 on a series, not in date order, that has
\* entries before, on and after base_date
C13_Witness ==
    /\ pvcall.pc = "returned"
    /\ pvcall.rate.n > 0
    /\ pvcall.cashflows # SortSeries(pvcall.cashflows)
    /\ \E i \in 1..Len(pvcall.cashflows) :
           pvcall.cashflows[i].date < pvcall.base_date
    /\ \E i \in 1..Len(pvcall.cashflows) :
           pvcall.cashflows[i].date = pvcall.base_date
    /\ \E i \in 1..Len(pvcall.cashflows) :
           pvcall.cashflows[i].date > pvcall.base_date
    /\ pvcall.result # SumAmounts(pvcall.cashflows)

(***************************************************************************)
(* src/eirmodelling.py: generate_test_schedule with payments_per_year = 1, *)
(* and the round trip calculate_eir_for_loan(generate_test_schedule(...))  *)
(* of src/test.py.  The payment dates are the anniversaries of the start   *)
(* date, taken here on the grid of DaysPerYear days.                       *)
(***************************************************************************)
\* b^k
RECURSIVE Pow(_, _)
Pow(b, k) == IF k = 0 THEN 1 ELSE b * Pow(b, k - 1)

\* line 278: principal * r / (1 - (1 + r) ** (-n)), which for r = rn / rd is
\* principal * rn * (rd + rn)^n / (rd * ((rd + rn)^n - rd^n))
LevelPayment(principal, r, n) ==
    IF r.n = 0 THEN principal \div n
    ELSE MulDivSat(principal, r.n * Pow(r.d + r.n, n),
                   r.d * (Pow(r.d + r.n, n) - Pow(r.d, n)))

\* lines 280-288: the payments of periods p..n at the balance bal
RECURSIVE AmortizingFlows(_, _, _, _, _)
AmortizingFlows(payment, bal, r, p, n) ==
    IF p > n THEN <<>>
    ELSE LET interest == MulDivSat(bal, r.n, r.d)
             principal_repay == IF p = n THEN bal ELSE payment - interest
             paid == IF p = n THEN interest + bal ELSE payment
         IN  <<paid>> \o AmortizingFlows(payment, bal - principal_repay,
                                         r, p + 1, n)

\* lines 291-297
BulletFlows(principal, r, n) ==
    [p \in 1..n |-> IF p = n THEN MulDivSat(principal, r.n, r.d) + principal
                    ELSE MulDivSat(principal, r.n, r.d)]

\* generate_test_schedule(principal, annual_rate, start, term_years, 1,
\* amortizing), with the start date as day 0
GenerateTestSchedule(principal, annual_rate, term_years, amortizing) ==
    LET flows == IF term_years = 0 THEN <<>>
                 ELSE IF amortizing
                 THEN AmortizingFlows(
                          LevelPayment(principal, annual_rate, term_years),
                          principal, annual_rate, 1, term_years)
                 ELSE BulletFlows(principal, annual_rate, term_years)
    IN  <<Entry(0, -Abs(principal))>>
            \o [p \in 1..Len(flows) |-> Entry(p, flows[p])]

\* the call of generate_test_schedule
TschedCall ==
    /\ tsched.pc = "entry"
    /\ tsched' = [tsched EXCEPT
                    !.pc = "returned",
                    !.result = GenerateTestSchedule(
                                   tsched.principal, tsched.annual_rate,
                                   tsched.term_years, tsched.amortizing)]
    /\ UNCHANGED loanVars
    /\ UNCHANGED <<fcall, xc, cva, pvcall, log>>

\* calculate_eir_for_loan(schedule), lines 165-173: xirr(schedule)
EirOfSchedule ==
    /\ tsched.pc = "returned"
    /\ xc.pc = "idle"
    /\ xc' = NewXirr(tsched.result, DefaultGuess, DefaultTol,
                     DefaultMaxIterXirr)
    /\ UNCHANGED loanVars
    /\ UNCHANGED <<fcall, cva, pvcall, tsched, log>>

\* Principals of 1e-6 and 8.2e-6: their payments at the rates below are
\* whole numbers of the amount unit
MaxTerm == 2

Principals == {100, 820}

ContractRates == {[n |-> 1, d |-> 20], [n |-> 1, d |-> 4]}

InitRoundTrip ==
    /\ terms = IdleTerms
    /\ pc = "idle"
    /\ LoanFresh
    /\ fcall = IdleCall
    /\ xc = IdleXirr
    /\ cva = IdleCva
    /\ pvcall = IdlePv
    /\ log = <<>>
    /\ \E P \in Principals, r \in ContractRates, n \in 0..MaxTerm,
          am \in BOOLEAN :
           tsched = [IdleSched EXCEPT !.pc = "entry", !.principal = P,
                                      !.annual_rate = r, !.term_years = n,
                                      !.amortizing = am]

NextRoundTrip ==
    \/ TschedCall
    \/ EirOfSchedule
    \/ XirrEntry
    \/ XirrBracket
    \/ XirrExpand
    \/ XirrChoose
    \/ XirrBisect

SpecRoundTrip == InitRoundTrip /\ [][NextRoundTrip]_vars

\* |e - r| <= |r| / k, for rates e and r > 0 as fractions
RelErrWithin(e, r, k) ==
    Abs(e.n * r.d - r.n * e.d) <= (r.n * e.d) \div k

\* C14: for a schedule produced by generate_test_schedule(principal, rate,
\* start, term_years, payments_per_year=1) with a whole-year term, xirr
\* recovers the contract rate, within 1e-6 relative error for an amortizing
\* schedule and within 1e-8 relative error for a bullet schedule.
C14_RoundTripRecoversRate ==
    (tsched.term_years >= 1 /\ xc.pc \in {"returned", "raised"})
        => /\ xc.pc = "returned"
           /\ RelErrWithin(xc.result, tsched.annual_rate,
                           IF tsched.amortizing THEN 10^6 ELSE 10^8)

\* the series, in date order, is one outflow followed only by receipts
\* dated strictly later
OutflowThenReceipts(cashflows) ==
    LET s == SortSeries(cashflows)
    IN  /\ Len(s) >= 2
        /\ s[1].amount < 0
        /\ \A i \in 2..Len(s) : s[i].amount > 0 /\ s[i].date > s[1].date

\* the entries dated strictly after t0 (cfs[cfs.index > start])
ReceiptsAfter(cashflows, t0) ==
    SelectSeq(cashflows, LAMBDA e : e.date > t0)

\* |compute_pv_of_cashflows(receipts after t0, e, t0) - P| for the rate e
\* the call returned
ProceedsGap ==
    LET t0 == EarliestDate(xc.cashflows)
        P  == -SortSeries(xc.cashflows)[1].amount
    IN  Abs(ComputePv(ReceiptsAfter(xc.cashflows, t0), xc.result, t0) - P)

\* C15: for a series whose first entry is a single outflow -P at t0
\* followed only by receipts dated strictly after t0, the rate e returned
\* by xirr satisfies compute_pv_of_cashflows(receipts after t0, e, t0) = P
\* within 1e-10 relative error.
C15_ReceiptsPvEqualsProceeds ==
    (xc.pc = "returned" /\ OutflowThenReceipts(xc.cashflows))
        => ProceedsGap
               <= ((-SortSeries(xc.cashflows)[1].amount) \div 10^5) \div 10^5

\* C15, amended: for such a series, when xirr returns the rate e by its
\* early bisection exit, compute_pv_of_cashflows(receipts after t0, e, t0)
\* differs from P by less than tol, an absolute amount (1e-8 by default).
C15_EarlyExitReceiptsPvWithinTol ==
    (xc.pc = "returned" /\ xc.ret = "early"
        /\ OutflowThenReceipts(xc.cashflows))
        => ProceedsGap < xc.tol

\* an outflow followed by three receipts has been solved by an early exit
\* of the bisection, after at least one narrowing of the bracket
C15_Witness ==
    /\ xc.pc = "returned"
    /\ xc.ret = "early"
    /\ xc.iter >= 1
    /\ OutflowThenReceipts(xc.cashflows)
    /\ Len(xc.cashflows) = 4

(***************************************************************************)
(* src/hazel.py: residuals, calculate_payment after construction,          *)
(* frequency names, the first payment date                                 *)
(***************************************************************************)
\* terms with a residual above the amount that are valid otherwise, and
\* whose start day is not the payment day (the case of C7, where
\* generate_schedule stops whatever the residual is)
LargeResidualTerms ==
    /\ terms.residual > terms.amount
    /\ ~InvalidTerms
    /\ terms.frequency \in FrequencyNames
    /\ terms.payment_date # {}
    /\ \A d \in terms.payment_date : terms.start_date.d # Min(28, d)

GrownBalance ==
    CalcLedger(terms, payment_schedule, 0)
        .closing_balance[Len(payment_schedule)]

C17_LaterCallsLeaveLedger ==
    [][pc = "done" => (ledger' = ledger /\ monthly_payment' = monthly_payment)]_vars

\* C19: a frequency name outside the recognised set makes loanSchedule
\* construction fail at the first use of the name (the KeyError of the
\* lookup), before the schedule is generated and before any payment is
\* simulated.
C19_UnknownFrequencyFailsAtLookup ==
    (terms.frequency \notin FrequencyNames /\ pc \notin {"idle", "new"})
        => /\ pc = "raised"
           /\ err = "KeyError"
           /\ first_payment_date = NoDate
           /\ payment_schedule = <<>>
           /\ calls = 0
           /\ monthly_payment.kind = "unset"

\* terms that are valid but for the frequency name have been refused
C19_Witness ==
    /\ pc = "raised"
    /\ err = "KeyError"
    /\ terms.frequency = "weekly"
    /\ ~InvalidTerms
    /\ terms.payment_date = {15}

\* months counted from year 0
MonthIndex(dt) == 12 * dt.y + dt.m

\* C20: when the start day of month exceeds the payment day, the first
\* payment date is the payment day in the month following start_date's
\* month; when it is less, the first payment date is the payment day in
\* start_date's own month; in both cases the first payment date is strictly
\* after start_date and its day of month equals the payment day.
C20_FirstPaymentDateRule ==
    (pc \notin {"idle", "new", "fields"} /\ payment_date # 0
         /\ terms.start_date.d # payment_date)
        => /\ payment_schedule # <<>>
           /\ first_payment_date.d = payment_date
           /\ MonthIndex(first_payment_date)
                  = MonthIndex(terms.start_date)
                        + (IF terms.start_date.d > payment_date
                           THEN 1 ELSE 0)
           /\ ValidDate(first_payment_date.y, first_payment_date.m,
                        first_payment_date.d)
           /\ DaysBetween(terms.start_date, first_payment_date) > 0

\* a start on 20 December, after the payment day: the first payment falls in
\* January of the next year
C20_Witness ==
    /\ pc = "done"
    /\ terms.start_date.m = 12
    /\ terms.start_date.d > payment_date
    /\ first_payment_date.y = terms.start_date.y + 1
    /\ first_payment_date.m = 1

(***************************************************************************)
(* A caller that makes calls of xirr, compute_pv_of_cashflows and          *)
(* compute_carrying_value_adjustments one after another, in any order, on  *)
(* series it keeps.  log holds, per finished call, the function, the       *)
(* arguments as they are when the call returns, and the outcome.           *)
(***************************************************************************)
MaxLogged == 3

UnsortedProceeds ==
    <<Entry(2, Cents(40)), Entry(0, Cents(-95)), Entry(3, Cents(40)),
      Entry(1, Cents(40))>>

UnsortedExactRoot == <<Entry(1, 275007500), Entry(0, Cents(-100))>>

SessionXirrCalls ==
    { NewXirr(UnsortedProceeds, DefaultGuess, DefaultTol, 2),
      NewXirr(UnsortedExactRoot, DefaultGuess, DefaultTol,
              DefaultMaxIterXirr),
      NewXirr(<<Entry(1, Cents(50)), Entry(0, Cents(100))>>, DefaultGuess,
              DefaultTol, DefaultMaxIterXirr),
      NewXirr(<<Entry(2, Cents(100)), Entry(0, Cents(100)),
                Entry(1, Cents(-200))>>, DefaultGuess, DefaultTol, 2) }

SessionPvCalls ==
    { [IdlePv EXCEPT !.pc = "entry",
                     !.cashflows = <<Entry(3, Cents(50)), Entry(1, Cents(30)),
                                     Entry(0, Cents(20))>>,
                     !.rate = [n |-> 5, d |-> 100],
                     !.base_date = DaysPerYear],
      [IdlePv EXCEPT !.pc = "entry", !.rate = [n |-> 5, d |-> 100]] }

SessionCvaCalls ==
    { [IdleCva EXCEPT !.pc = "entry", !.original = UnsortedProceeds,
                      !.reforecasts =
                          [d \in {DaysPerYear} |->
                              <<Entry(3, Cents(50)), Entry(1, Cents(30))>>],
                      !.eir_arg = {[n |-> 5, d |-> 100]}],
      [IdleCva EXCEPT !.pc = "entry", !.original = UnsortedExactRoot,
                      !.reforecasts =
                          [d \in RefDates |->
                              <<Entry(3, Cents(50)), Entry(1, Cents(30))>>]] }

InitSession ==
    /\ terms = IdleTerms
    /\ pc = "idle"
    /\ LoanFresh
    /\ fcall = IdleCall
    /\ xc = IdleXirr
    /\ cva = IdleCva
    /\ NoOtherCalls

NoCallRunning ==
    xc.pc = "idle" /\ cva.pc = "idle" /\ pvcall.pc = "idle"

\* the caller calls xirr
CallXirr ==
    /\ NoCallRunning
    /\ Len(log) < MaxLogged
    /\ xc' \in SessionXirrCalls
    /\ UNCHANGED loanVars
    /\ UNCHANGED <<fcall, cva, pvcall, tsched, log>>

\* the caller calls compute_pv_of_cashflows
CallPv ==
    /\ NoCallRunning
    /\ Len(log) < MaxLogged
    /\ pvcall' \in SessionPvCalls
    /\ UNCHANGED loanVars
    /\ UNCHANGED <<fcall, xc, cva, tsched, log>>

\* the caller calls compute_carrying_value_adjustments
CallCva ==
    /\ NoCallRunning
    /\ Len(log) < MaxLogged
    /\ cva' \in SessionCvaCalls
    /\ UNCHANGED loanVars
    /\ UNCHANGED <<fcall, xc, pvcall, tsched, log>>

\* xirr, called by the caller, returns or raises
ReturnXirr ==
    /\ cva.pc = "idle"
    /\ xc.pc \in {"returned", "raised"}
    /\ log' = Append(log, [fn |-> "xirr",
                           args |-> <<xc.cashflows, xc.guess, xc.tol,
                                      xc.max_iter>>,
                           out |-> <<xc.pc, xc.result, xc.err>>])
    /\ xc' = IdleXirr
    /\ UNCHANGED loanVars
    /\ UNCHANGED <<fcall, cva, pvcall, tsched>>

\* compute_pv_of_cashflows returns
ReturnPv ==
    /\ pvcall.pc = "returned"
    /\ log' = Append(log, [fn |-> "compute_pv_of_cashflows",
                           args |-> <<pvcall.cashflows, pvcall.rate,
                                      pvcall.base_date>>,
                           out |-> <<pvcall.pc, pvcall.result>>])
    /\ pvcall' = IdlePv
    /\ UNCHANGED loanVars
    /\ UNCHANGED <<fcall, xc, cva, tsched>>

\* compute_carrying_value_adjustments returns or raises; the xirr call it
\* made is over
ReturnCva ==
    /\ cva.pc \in {"returned", "raised"}
    /\ log' = Append(log, [fn |-> "compute_carrying_value_adjustments",
                           args |-> <<cva.original, cva.reforecasts,
                                      cva.eir_arg>>,
                           out |-> <<cva.pc, cva.rows, cva.err>>])
    /\ cva' = IdleCva
    /\ xc' = IdleXirr
    /\ UNCHANGED loanVars
    /\ UNCHANGED <<fcall, pvcall, tsched>>

NextSession ==
    \/ CallXirr
    \/ CallPv
    \/ CallCva
    \/ XirrEntry
    \/ XirrBracket
    \/ XirrExpand
    \/ XirrChoose
    \/ XirrNewton
    \/ XirrBisect
    \/ PvCall
    \/ CvaStart
    \/ CvaEir
    \/ CvaRow
    \/ CvaFrame
    \/ ReturnXirr
    \/ ReturnPv
    \/ ReturnCva

SpecSession == InitSession /\ [][NextSession]_vars

\* a step inside a call leaves the caller's series and mapping as they are
ArgumentsKept ==
    /\ (xc.pc # "idle" /\ xc'.pc # "idle") => xc'.cashflows = xc.cashflows
    /\ (pvcall.pc # "idle" /\ pvcall'.pc # "idle")
           => pvcall'.cashflows = pvcall.cashflows
    /\ (cva.pc # "idle" /\ cva'.pc # "idle")
           => /\ cva'.original = cva.original
              /\ cva'.reforecasts = cva.reforecasts

\* finished calls of one function with the same arguments have the same
\* outcome
SameCallSameOutcome ==
    \A i, j \in 1..Len(log) :
        (log[i].fn = log[j].fn /\ log[i].args = log[j].args)
            => log[i].out = log[j].out

\* C18: compute_pv_of_cashflows, xirr and
\* compute_carrying_value_adjustments leave the caller's cash-flow series
\* and the reforecast mapping unchanged, and calls with the same arguments
\* return the same result whatever other calls ran before or between them.
C18_InputsKeptAndCallsRepeatable ==
    [][ArgumentsKept /\ SameCallSameOutcome']_vars

\* one call has been made twice on a series given out of date order, with
\* a call of another function between the two
C18_Witness ==
    /\ Len(log) = 3
    /\ log[1].fn = "compute_carrying_value_adjustments"
    /\ log[1].args[1] = UnsortedProceeds
    /\ log[2].fn = "xirr"
    /\ log[2].args[1] = UnsortedProceeds
    /\ log[3] = log[1]

(***************************************************************************)
(* The two root finders, each called once: a stand-alone fsolve call or an *)
(* xirr call.  A call that has not returned or raised takes its next step: *)
(* the interpreter does not stop in the middle of a call.                  *)
(***************************************************************************)
InitSolvers == InitFsolve \/ InitXirr

NextSolvers ==
    \/ FsolvePass
    \/ XirrEntry
    \/ XirrBracket
    \/ XirrExpand
    \/ XirrChoose
    \/ XirrNewton
    \/ XirrBisect

\* each loop, once it can take a pass, takes it
FairSolvers ==
    /\ WF_vars(FsolvePass)
    /\ WF_vars(XirrEntry)
    /\ WF_vars(XirrBracket)
    /\ WF_vars(XirrExpand)
    /\ WF_vars(XirrChoose)
    /\ WF_vars(XirrNewton)
    /\ WF_vars(XirrBisect)

SpecSolvers == InitSolvers /\ [][NextSolvers]_vars /\ FairSolvers

\* no call is under way
SolversFinished ==
    /\ fcall.status \in {"idle", "returned", "raised"}
    /\ xc.pc \in {"idle", "returned", "raised"}

\* the loops are within their budgets: passes of fsolve, expansions of the
\* bracket, passes of the bisection or Newton loop, and the npv evaluations
\* these make (2 for the bracket, 1 per expansion, at most 2 per pass)
WithinBudgets ==
    /\ fcall.i <= fcall.max_iter
    /\ xc.expansions <= MaxExpansions
    /\ xc.iter <= xc.max_iter
    /\ xc.npv_calls <= 2 + MaxExpansions + 2 * xc.max_iter

\* C21: every call of fsolve and of xirr terminates, by returning or by
\* raising: fsolve after at most max_iter iterations, xirr after at most 50
\* bracket expansions followed by at most max_iter bisection iterations or
\* at most max_iter Newton iterations.
C21_SolversTerminateWithinBudgets ==
    []WithinBudgets /\ <>[]SolversFinished

\* an xirr call that found no bracket has used up max_iter Newton passes
\* and raised
C21_Witness ==
    /\ xc.pc = "raised"
    /\ xc.err = "RuntimeError"
    /\ xc.expansions > 0
    /\ xc.iter = xc.max_iter
    /\ xc.max_iter = MaxIterXirr

(***************************************************************************)
(* The bisection of xirr.                                                  *)
(***************************************************************************)
\* r < s for two rates whose denominators divide one another
RateLess(r, s) ==
    LET D == Max(r.d, s.d)
    IN  r.n * (D \div r.d) < s.n * (D \div s.d)

\* the numerator of b - a over the denominator D
RateDiffOver(a, b, D) == b.n * (D \div b.d) - a.n * (D \div a.d)

UpperRate == [n |-> xc.upper, d |-> 1]

\* in the loop the bracket has a sign change or a zero at its ends, lies in
\* [lower, upper], and after iter passes is (upper - lower) / 2^iter wide
BisectBracketOk ==
    xc.pc = "bisect" =>
        /\ SignProd(xc.fa, xc.fb) <= 0
        /\ ~RateLess(xc.a, Lower)
        /\ RateLess(xc.a, xc.b)
        /\ ~RateLess(UpperRate, xc.b)
        /\ RateDiffOver(xc.a, xc.b, Lower.d * 2^xc.iter)
               = RateDiffOver(Lower, UpperRate, Lower.d)

\* a result of the bisection is the midpoint of the last bracket, strictly
\* inside (lower, upper): one that passed the exit test within the budget,
\* or the one left when the budget is used up
BisectResultOk ==
    (xc.pc = "returned" /\ xc.ret \in {"early", "midpoint"}) =>
        /\ xc.result = Mid(xc.a, xc.b)
        /\ RateLess(Lower, xc.result)
        /\ RateLess(xc.result, UpperRate)
        /\ xc.ret = "early" =>
               /\ xc.iter < xc.max_iter
               /\ Abs(XirrNpv(xc.series, xc.result).v) < xc.tol
        /\ xc.ret = "midpoint" => xc.iter = xc.max_iter

\* a pass that goes on has seen a midpoint failing the exit test, and keeps
\* [a, m] when fa * fm <= 0 and [m, b] otherwise
HalfKept ==
    (xc.pc = "bisect" /\ xc'.pc = "bisect") =>
        LET m == Mid(xc.a, xc.b)
            fm == XirrNpv(xc.series, m)
        IN  /\ Abs(fm.v) >= xc.tol
            /\ IF SignProd(xc.fa, fm) <= 0
               THEN xc'.a = xc.a /\ xc'.b = m
               ELSE xc'.a = m /\ xc'.b = xc.b

\* C22: throughout the bisection fa * fb <= 0 and lower <= a < b <= upper,
\* the bracket halves on every pass, the half kept is [a, m] when
\* fa * fm <= 0 and [m, b] otherwise, the result is the first midpoint with
\* |npv(m)| < tol or the midpoint of the bracket left after max_iter passes,
\* and so lies strictly between lower and the final upper bound.
C22_BisectionKeepsBracket ==
    []BisectBracketOk /\ []BisectResultOk /\ [][HalfKept]_vars

\* a bisection that used its whole budget after moving both ends of the
\* bracket
C22_Witness ==
    /\ xc.pc = "returned"
    /\ xc.ret = "midpoint"
    /\ xc.iter = MaxIterXirr
    /\ xc.a # Lower
    /\ xc.b # UpperRate

(***************************************************************************)
(* The bracket search of xirr.                                             *)
(***************************************************************************)
\* the first k with 10 * 2^k > 1e6, which is 17
MaxDoublings ==
    CHOOSE k \in 1..MaxExpansions :
        /\ InitialUpper * 2^(k - 1) <= UpperLimit
        /\ InitialUpper * 2^k > UpperLimit

\* once the first bracket is set, upper is 10 * 2^k after k doublings, k is
\* at most 17 and so below the cap of 50
UpperIsDoubled ==
    (xc.pc \in {"expand", "bracketed", "newton", "bisect", "returned"}
        \/ (xc.pc = "raised" /\ xc.err = "RuntimeError")) =>
        /\ xc.upper = InitialUpper * 2^xc.expansions
        /\ xc.expansions <= MaxDoublings
        /\ xc.expansions < MaxExpansions

\* a step of the search leaves npv(lower) alone, doubles upper only while
\* the product of the ends is positive, stops at the first product that is
\* not, and with a positive product stops only above the limit
ExpandRule ==
    xc.pc = "expand" =>
        /\ xc'.f_low = xc.f_low
        /\ xc'.upper # xc.upper =>
               /\ SignProd(xc.f_low, xc.f_high) > 0
               /\ xc'.upper = 2 * xc.upper
               /\ xc'.f_high = XirrNpv(xc.series, [n |-> xc'.upper, d |-> 1])
        /\ SignProd(xc.f_low, xc.f_high) <= 0 =>
               xc'.upper = xc.upper /\ xc'.f_high = xc.f_high
        /\ (xc'.pc = "bracketed" /\ SignProd(xc.f_low, xc.f_high) > 0) =>
               /\ xc.upper <= UpperLimit
               /\ xc'.upper > UpperLimit

\* the bisection starts at the lower bound -0.9999 and at upper
BisectStartsAtBounds ==
    (xc.pc = "bracketed" /\ xc'.pc = "bisect") =>
        xc'.a = Lower /\ xc'.b = [n |-> xc.upper, d |-> 1]

\* C23: the bracket search starts at lower = -0.9999 and upper = 10, never
\* changes lower, doubles upper only while npv(lower) * npv(upper) > 0, and
\* stops at the first product that is not positive or as soon as upper
\* exceeds 1e6; upper is always 10 * 2^k with k <= 17, and the cap of 50
\* expansions never ends the loop.
C23_UpperDoublesToLimit ==
    []UpperIsDoubled /\ [][ExpandRule /\ BisectStartsAtBounds]_vars

\* a search that found no sign change has stopped above the limit, after
\* 17 doublings
C23_Witness ==
    /\ xc.pc = "bracketed"
    /\ xc.expansions = 17
    /\ xc.upper > UpperLimit
    /\ SignProd(xc.f_low, xc.f_high) > 0

(***************************************************************************)
(* The Newton fallback of xirr.                                            *)
(***************************************************************************)
\* the Newton loop is entered, and a Newton iterate returned, only with a
\* positive product at the ends of the final bracket; the bisection only
\* without
NewtonOnlyUnbracketed ==
    /\ (xc.pc = "newton" \/ (xc.pc = "returned" /\ xc.ret = "newton")) =>
           SignProd(xc.f_low, xc.f_high) > 0
    /\ (xc.pc = "bisect"
           \/ (xc.pc = "returned" /\ xc.ret \in {"early", "midpoint"})) =>
           SignProd(xc.f_low, xc.f_high) <= 0

\* a rate returned by the fallback is within tol of the iterate before it,
\* and was found within the budget
NewtonResultOk ==
    (xc.pc = "returned" /\ xc.ret = "newton") =>
        /\ xc.rate.kind = "fin"
        /\ xc.result.d = ValueScale
        /\ Abs(xc.result.n - xc.rate.n) < xc.tol
        /\ xc.iter < xc.max_iter

\* the derivative estimate at the iterate of the state is exactly zero
DerivIsZero ==
    /\ xc.rate.kind = "fin"
    /\ LET f == XirrNpv(xc.series, [n |-> xc.rate.n, d |-> ValueScale])
           f1 == XirrNpv(xc.series, [n |-> xc.rate.n + NewtonH(xc.rate.n),
                                     d |-> ValueScale])
       IN  f.kind = "fin" /\ f1.v = f.v

\* the loop starts from guess; with a zero derivative estimate or the
\* budget used up the call raises
NewtonRule ==
    /\ (xc.pc = "bracketed" /\ xc'.pc = "newton") =>
           /\ xc'.iter = 0
           /\ xc'.rate = [kind |-> "fin",
                          n |-> MulDivSat(xc.guess.n, ValueScale, xc.guess.d)]
    /\ (xc.pc = "newton" /\ xc' # xc
           /\ (xc.iter >= xc.max_iter \/ DerivIsZero)) =>
           xc'.pc = "raised" /\ xc'.err = "RuntimeError"

\* C24: Newton runs only when no sign change was found after the bracket
\* expansion, starting from guess, and never when a bracket exists; it
\* returns only an iterate with |new_rate - rate| < tol, and with a zero
\* derivative estimate or after max_iter passes without such an iterate the
\* call raises in place of returning a rate.
C24_NewtonOnlyWithoutBracket ==
    []NewtonOnlyUnbracketed /\ []NewtonResultOk /\ [][NewtonRule]_vars

\* the fallback has returned an iterate after at least one pass that went on
C24_Witness ==
    /\ xc.pc = "returned"
    /\ xc.ret = "newton"
    /\ xc.iter > 0

\* the fallback has met a zero derivative estimate and raised within budget
ZeroDerivativeRaised ==
    /\ xc.pc = "raised"
    /\ xc.err = "RuntimeError"
    /\ xc.iter < xc.max_iter

(***************************************************************************)
(* The ledger calculate_payment leaves.                                    *)
(***************************************************************************)
\* s[i] + ... + s[j]
RECURSIVE SumOver(_, _, _)
SumOver(s, i, j) == IF i > j THEN 0 ELSE s[i] + SumOver(s, i + 1, j)

\* row 0 of the lists (their first entries) is the seed row
SeedRow ==
    /\ ledger.opening_balance[1] = 0
    /\ ledger.closing_balance[1] = terms.amount
    /\ ledger.interest_payments[1] = 0
    /\ ledger.principal_payments[1] = 0
    /\ ledger.total_payments[1] = 0

\* row i of the lists (entry i + 1) follows from row i - 1 and the payment p
LedgerRow(i, p) ==
    /\ ledger.opening_balance[i + 1] = ledger.closing_balance[i]
    /\ ledger.interest_payments[i + 1] =
           MulDivFloor(ledger.opening_balance[i + 1],
                       GrowthMinus1(terms.rate,
                                    DaysInPeriod(payment_schedule, i - 1)),
                       FactorScale)
    /\ ledger.principal_payments[i + 1] = p - ledger.interest_payments[i + 1]
    /\ ledger.closing_balance[i + 1] =
           ledger.opening_balance[i + 1] - ledger.principal_payments[i + 1]
    /\ ledger.closing_balance[i + 1] =
           terms.amount - SumOver(ledger.principal_payments, 2, i + 1)

\* C25: after calculate_payment(p) row 0 is the seed row, and for every
\* period i in 1..N the opening balance is the closing balance of row i - 1,
\* the principal is p less the interest on the opening balance over
\* days_in_period[i - 1], and the closing balance is the opening balance
\* less the principal, hence amount less the principal of rows 1..i.
C25_LedgerRecurrence ==
    calls > 0 =>
        /\ SeedRow
        /\ \A i \in 1..(Len(payment_schedule) - 1) :
               LedgerRow(i, last_payment)

\* a loan of three periods at a rate other than 0, after a call with a
\* payment other than 0 that left interest in the last period
C25_Witness ==
    /\ calls > 0
    /\ Len(payment_schedule) = 4
    /\ terms.rate # 0
    /\ last_payment # 0
    /\ ledger.interest_payments[4] # 0

(***************************************************************************)
(* The frame generate_schedule returns.                                    *)
(***************************************************************************)
\* C26: the generated schedule has payments + 1 rows; row 0 is dated
\* start_date, rows 1..N are the payment dates in strictly increasing order
\* with date[1] >= date[0], and days_in_period[i] is the number of calendar
\* days from date[i] to date[i+1] for every i < N (row N has none).
C26_ScheduleRows ==
    payment_schedule # <<>> =>
        LET N == Len(payment_schedule) - 1
        IN  /\ N = terms.payments
            /\ payment_schedule[1] = terms.start_date
            /\ N >= 1 =>
                   /\ payment_schedule[2] = first_payment_date
                   /\ Ordinal(payment_schedule[2])
                          >= Ordinal(payment_schedule[1])
            /\ \A i \in 1..N, j \in 1..N :
                   i < j => Ordinal(payment_schedule[i + 1])
                               < Ordinal(payment_schedule[j + 1])
            /\ \A i \in 0..(N - 1) :
                   /\ DaysInPeriod(payment_schedule, i)
                          = Ordinal(payment_schedule[i + 2])
                               - Ordinal(payment_schedule[i + 1])
                   /\ DaysInPeriod(payment_schedule, i) > 0

\* a schedule of three payments, a quarter apart, over a year's end
C26_Witness ==
    /\ pc = "scheduled"
    /\ Len(payment_schedule) = 4
    /\ frequency = 4
    /\ payment_schedule[4].y > payment_schedule[1].y

(***************************************************************************)
(* loanSchedule on a grid of 1e-6: h and xtol of fsolve, both 1e-5, are    *)
(* ten grid steps, so that an iterate and the next one can differ by less  *)
(* than xtol without being equal.                                          *)
(***************************************************************************)
FineScale == 10^6
HFine == FineScale \div 10^5
XtolFine == FineScale \div 10^5

\* the pass of fsolve's loop body on the fine grid
NewtonStepFine(x, f_val, f_h, xtol) ==
    LET diff == f_h - f_val
    IN  IF diff = 0
        THEN [kind |-> "raise", x |-> x]
        ELSE LET x_new == x - TruncDiv(f_val * HFine, diff)
             IN  IF Abs(x_new - x) < xtol
                 THEN [kind |-> "return", x |-> x_new]
                 ELSE [kind |-> "continue", x |-> x_new]

\* the pass of fsolve whose last call of calculate_payment is the one at
\* x + h
FsolveIterFineLastAtXPlusH ==
    /\ pc = "solving"
    /\ LET F(p) == CalcPayment(terms, payment_schedule, p)
           out == FsolveOutcome(
                      NewtonStepFine(fs.x, F(fs.x), F(fs.x + HFine), XtolFine),
                      fs.i, DefaultMaxIter)
       IN  /\ ledger' = CalcLedger(terms, payment_schedule, fs.x + HFine)
           /\ calls' = calls + 3
           /\ last_payment' = fs.x + HFine
           /\ CASE out.kind = "raise" ->
                     /\ Raise("ValueError")
                     /\ UNCHANGED <<fs, monthly_payment>>
                [] out.kind = "return" ->
                     /\ monthly_payment' = [kind |-> "float", v |-> out.x]
                     /\ pc' = "solved"
                     /\ UNCHANGED <<fs, err>>
                [] out.kind = "none" ->
                     /\ monthly_payment' = [kind |-> "None", v |-> 0]
                     /\ pc' = "solved"
                     /\ UNCHANGED <<fs, err>>
                [] out.kind = "continue" ->
                     /\ fs' = [x |-> out.x, i |-> fs.i + 1]
                     /\ UNCHANGED <<pc, err, monthly_payment>>
    /\ UNCHANGED <<terms, frequency, payment_date, first_payment_date,
                   payment_schedule, df, fcall, xc, cva,
                   pvcall, tsched, log>>

\* one pass of fsolve's loop (lines 13-22) on self.calculate_payment, on the
\* fine grid: the calls are at x, at x + h and at x again
FsolveIterFine ==
    /\ pc = "solving"
    /\ LET F(p) == CalcPayment(terms, payment_schedule, p)
           out == FsolveOutcome(
                      NewtonStepFine(fs.x, F(fs.x), F(fs.x + HFine), XtolFine),
                      fs.i, DefaultMaxIter)
       IN  /\ ledger' = CalcLedger(terms, payment_schedule, fs.x)
           /\ calls' = calls + 3
           /\ last_payment' = fs.x
           /\ CASE out.kind = "raise" ->
                     /\ Raise("ValueError")
                     /\ UNCHANGED <<fs, monthly_payment>>
                [] out.kind = "return" ->
                     /\ monthly_payment' = [kind |-> "float", v |-> out.x]
                     /\ pc' = "solved"
                     /\ UNCHANGED <<fs, err>>
                [] out.kind = "none" ->
                     /\ monthly_payment' = [kind |-> "None", v |-> 0]
                     /\ pc' = "solved"
                     /\ UNCHANGED <<fs, err>>
                [] out.kind = "continue" ->
                     /\ fs' = [x |-> out.x, i |-> fs.i + 1]
                     /\ UNCHANGED <<pc, err, monthly_payment>>
    /\ UNCHANGED <<terms, frequency, payment_date, first_payment_date,
                   payment_schedule, df, fcall, xc, cva,
                   pvcall, tsched, log>>

\* round(2) of a money amount of the fine grid
Round2Fine(v) == ((v + (FineScale \div 200)) \div (FineScale \div 100))
                     * (FineScale \div 100)

RoundAllFine(s) == [i \in 1..Len(s) |-> Round2Fine(s[i])]

\* lines 48-57 on the fine grid
BuildDfFine ==
    /\ pc = "solved"
    /\ df' = [payment_date |-> payment_schedule,
              payment_amount |-> RoundAllFine(ledger.total_payments),
              interest_payment |-> RoundAllFine(ledger.interest_payments),
              principal_payment |-> RoundAllFine(ledger.principal_payments),
              opening_balance |-> RoundAllFine(ledger.opening_balance),
              closing_balance |-> RoundAllFine(ledger.closing_balance),
              fees_outstanding |-> RoundAllFine(ledger.fees_outstanding)]
    /\ pc' = "done"
    /\ UNCHANGED <<terms, err, frequency, payment_date, first_payment_date,
                   payment_schedule, ledger, calls, last_payment, fs,
                   monthly_payment, fcall, xc, cva,
                   pvcall, tsched, log>>

\* loans of 100 and of 250.5 currency units
FineTerms ==
    {[amount |-> a, rate |-> r, start_date |-> sd, payments |-> n,
      residual |-> res, payment_date |-> pd, frequency |-> fq,
      start_fee |-> fee.start_fee, end_fee |-> fee.end_fee] :
        a \in {100 * FineScale, 2505 * (FineScale \div 10)},
        r \in {0, 50}, sd \in StartDates, n \in PaymentCounts,
        res \in {0, 10 * FineScale}, pd \in PaymentDateArgs,
        fq \in FrequencyArgs,
        fee \in {[start_fee |-> 0, end_fee |-> 0],
                 [start_fee |-> FineScale, end_fee |-> 2 * FineScale]}}

InitLoanFine ==
    /\ terms \in FineTerms
    /\ pc = "new"
    /\ LoanFresh
    /\ fcall = IdleCall
    /\ xc = IdleXirr
    /\ cva = IdleCva
    /\ NoOtherCalls

NextLoanFine ==
    \/ SetFields
    \/ GenerateSchedule
    \/ FsolveStart
    \/ FsolveIterFine
    \/ BuildDfFine
    \/ CalculatePayment

SpecLoanFine == InitLoanFine /\ [][NextLoanFine]_vars

\* the lists df is built from hold the simulation of the payment p
LedgerIsOf(p) == ledger = CalcLedger(terms, payment_schedule, p)

SolvedPayment == pc = "solved" /\ monthly_payment.kind = "float"

\* C27: when construction completes with a solved payment, the lists df is
\* built from are the simulation of exactly monthly_payment: the last call
\* of calculate_payment fsolve made was at the value it returned, and the
\* total payment of every interior period equals monthly_payment.
C27_LedgerIsOfSolvedPayment ==
    SolvedPayment =>
        /\ last_payment = monthly_payment.v
        /\ LedgerIsOf(monthly_payment.v)
        /\ \A i \in 2..(terms.payments - 1) :
               ledger.total_payments[i + 1] = monthly_payment.v

\* C27 as it holds: the lists are the simulation of the iterate fsolve
\* evaluated last, which is less than xtol away from the value it returned;
\* the total payment of every interior period is that iterate.
C27_LedgerIsOfLastIterate ==
    SolvedPayment =>
        /\ LedgerIsOf(last_payment)
        /\ Abs(last_payment - monthly_payment.v) < XtolFine
        /\ \A i \in 2..(terms.payments - 1) :
               /\ ledger.total_payments[i + 1] = last_payment
               /\ Abs(ledger.total_payments[i + 1] - monthly_payment.v)
                      < XtolFine

\* a solved loan with an interior period whose ledger is not that of the
\* payment returned
C27_Witness ==
    /\ SolvedPayment
    /\ terms.payments >= 3
    /\ last_payment # monthly_payment.v

(***************************************************************************)
(* The lists calculate_payment rebuilds.                                   *)
(***************************************************************************)
LedgerLists ==
    {"interest_payments", "principal_payments", "fees_outstanding",
     "total_payments", "opening_balance", "closing_balance"}

\* every list of the ledger has one entry per row of the schedule
ListsHaveAllRows ==
    \A f \in DOMAIN ledger : Len(ledger[f]) = terms.payments + 1

\* C28: every call of calculate_payment rebuilds all seven ledger lists
\* from the seed row, so that after any sequence of calls each list has
\* payments + 1 entries.
C28_SevenListsRebuilt ==
    calls > 0 => (Cardinality(DOMAIN ledger) = 7 /\ ListsHaveAllRows)

\* after any sequence of calls the ledger is the six lists of the last
\* payment, each of payments + 1 entries
LedgerOfLastCall ==
    calls > 0 =>
        /\ DOMAIN ledger = LedgerLists
        /\ Cardinality(DOMAIN ledger) = 6
        /\ ListsHaveAllRows
        /\ LedgerIsOf(last_payment)

\* a call with the payment of the call before leaves the ledger, and with
\* it the value returned, as they were
SamePaymentSameLedger ==
    (calls > 0 /\ calls' > calls /\ last_payment' = last_payment) =>
        /\ ledger' = ledger
        /\ CalcPayment(terms, payment_schedule, last_payment')
               = ledger.closing_balance[Len(payment_schedule)]
                    - terms.residual

\* C28 as it holds: every call of calculate_payment rebuilds the six ledger
\* lists from the seed row, so after any sequence of calls each list has
\* payments + 1 entries, the ledger and the value returned depend only on
\* the last payment and the terms, and a call repeated with the same
\* payment gives the same ledger and result.
C28_SixListsRebuilt ==
    []LedgerOfLastCall /\ [][SamePaymentSameLedger]_vars

\* a constructed loan of several periods after calls made on it
C28_Witness ==
    /\ pc = "done"
    /\ terms.payments >= 2
    /\ calls >= 5
    /\ last_payment = terms.amount

(***************************************************************************)
(* Loans at a rate of 0.                                                   *)
(***************************************************************************)
\* the ledger of the payment p at rate 0: no interest, and a balance that
\* falls by p in every period
ZeroRateLedger(p) ==
    \A i \in 0..terms.payments :
        /\ ledger.interest_payments[i + 1] = 0
        /\ ledger.closing_balance[i + 1] = terms.amount - i * p

\* the solved payment is (amount - residual) / N to the grid's precision
ZeroRateSolved ==
    pc \in {"solved", "done"} =>
        /\ monthly_payment.kind = "float"
        /\ Abs(terms.amount - terms.residual
                   - terms.payments * monthly_payment.v)
               < terms.payments * Xtol

\* C29: with rate = 0 the interest is 0 in every period whatever
\* days_in_period is, closing_balance[i] = amount - i * payment for every i
\* in 0..N, calculate_payment(p) = amount - N * p - residual, and the
\* payment fsolve solves for is (amount - residual) / N.
C29_ZeroRateIsLinear ==
    (terms.rate = 0 /\ calls > 0) =>
        /\ ZeroRateLedger(last_payment)
        /\ CalcPayment(terms, payment_schedule, last_payment)
               = terms.amount - terms.payments * last_payment
                    - terms.residual
        /\ ZeroRateSolved

\* a loan at rate 0 with a residual, solved over three periods of four
\* months
C29_Witness ==
    /\ terms.rate = 0
    /\ pc = "solved"
    /\ terms.payments = 3
    /\ terms.residual # 0
    /\ frequency = 4
    /\ monthly_payment.kind = "float"

(***************************************************************************)
(* A caller that calls xirr and compute_pv_of_cashflows on the same        *)
(* entries given in different orders.                                      *)
(***************************************************************************)
MaxPermutedCalls == 2

\* the orders in which the entries of s can be given
Orders(s) ==
    {[i \in 1..Len(s) |-> s[p[i]]] :
         p \in {q \in [1..Len(s) -> 1..Len(s)] :
                    \A i, j \in 1..Len(s) : q[i] = q[j] => i = j}}

\* proceeds of 0.95 and two receipts; a receipt and a payment on one date;
\* a double root at 0, which the bracket search does not find
PermutedSeries ==
    { <<Entry(0, Cents(-95)), Entry(1, Cents(40)), Entry(3, Cents(80))>>,
      <<Entry(0, Cents(-100)), Entry(2, Cents(150)), Entry(2, Cents(-20))>>,
      <<Entry(0, Cents(100)), Entry(1, Cents(-200)), Entry(2, Cents(100))>> }

PermutedXirrCalls ==
    {NewXirr(q, DefaultGuess, ValueScale \div 100, 2) :
         q \in UNION {Orders(s) : s \in PermutedSeries}}

PermutedPvCalls ==
    {[IdlePv EXCEPT !.pc = "entry", !.cashflows = q,
                    !.rate = [n |-> 5, d |-> 100],
                    !.base_date = DaysPerYear] :
         q \in UNION {Orders(s) : s \in PermutedSeries}}

\* the caller calls xirr
CallXirrPermuted ==
    /\ NoCallRunning
    /\ Len(log) < MaxPermutedCalls
    /\ xc' \in PermutedXirrCalls
    /\ UNCHANGED loanVars
    /\ UNCHANGED <<fcall, cva, pvcall, tsched, log>>

\* the caller calls compute_pv_of_cashflows
CallPvPermuted ==
    /\ NoCallRunning
    /\ Len(log) < MaxPermutedCalls
    /\ pvcall' \in PermutedPvCalls
    /\ UNCHANGED loanVars
    /\ UNCHANGED <<fcall, xc, cva, tsched, log>>

NextPermuted ==
    \/ CallXirrPermuted
    \/ CallPvPermuted
    \/ XirrEntry
    \/ XirrBracket
    \/ XirrExpand
    \/ XirrChoose
    \/ XirrNewton
    \/ XirrBisect
    \/ PvCall
    \/ ReturnXirr
    \/ ReturnPv

SpecPermuted == InitSession /\ [][NextPermuted]_vars

\* s and t hold the same entries, each as often
SameEntries(s, t) ==
    /\ Len(s) = Len(t)
    /\ \A e \in {s[i] : i \in 1..Len(s)} :
           Cardinality({i \in 1..Len(s) : s[i] = e})
               = Cardinality({i \in 1..Len(t) : t[i] = e})

\* finished calls of one function on the same entries, with the other
\* arguments equal, have the same outcome
SameEntriesSameOutcome ==
    \A i, j \in 1..Len(log) :
        (/\ log[i].fn = log[j].fn
         /\ SameEntries(log[i].args[1], log[j].args[1])
         /\ Tail(log[i].args) = Tail(log[j].args))
            => log[i].out = log[j].out

\* the series xirr works on is the caller's entries in date order: its
\* first date, the base, is the earliest, and no entry lies before it
XirrBaseIsEarliest ==
    xc.pc \notin {"idle", "entry"} =>
        /\ SameEntries(xc.series, xc.cashflows)
        /\ \A i \in 1..Len(xc.series) :
               /\ xc.series[i].date - xc.series[1].date >= 0
               /\ \A j \in 1..Len(xc.cashflows) :
                      xc.series[1].date <= xc.cashflows[j].date
               /\ i > 1 => xc.series[i - 1].date <= xc.series[i].date

\* the entries compute_pv_of_cashflows discounts lie at or after base_date
PvGapsNonNegative ==
    pvcall.pc = "returned" =>
        LET remaining == FromDate(SortSeries(pvcall.cashflows),
                                  pvcall.base_date)
        IN  \A i \in 1..Len(remaining) :
                remaining[i].date - pvcall.base_date >= 0

\* C30: xirr and compute_pv_of_cashflows sort the series by date before
\* use, so their result is the same for every order of the input entries;
\* the base date of xirr is the earliest date of the series, and every day
\* gap used as a discount exponent is a non-negative whole number of days.
C30_OrderOfEntriesIsIrrelevant ==
    SameEntriesSameOutcome /\ XirrBaseIsEarliest /\ PvGapsNonNegative

\* xirr has returned a rate for the same entries given in two orders, the
\* second not in date order
C30_Witness ==
    /\ Len(log) = 2
    /\ log[1].fn = "xirr"
    /\ log[2].fn = "xirr"
    /\ log[1].out[1] = "returned"
    /\ log[1].args[1] # log[2].args[1]
    /\ SameEntries(log[1].args[1], log[2].args[1])
    /\ Tail(log[1].args) = Tail(log[2].args)
    /\ log[2].args[1][1].date > log[2].args[1][2].date

====
